---- MODULE Spec2Model ----
(***************************************************************************)
(* State-machine model of contracts/AdvancedNFT.sol (commit-reveal mint,   *)
(* Merkle allowlist, swap-to-last id pool, escrow, contributor payouts)    *)
(* and contracts/SimpleWallet.sol (EIP-712 meta-transactions).             *)
(*                                                                         *)
(* One action is one external call (one transaction).  A call that makes   *)
(* an external call to a contract account (refund, ERC721 receiver hook,   *)
(* payout) is split at that call: the first action runs the handler up to  *)
(* the call and opens a frame that keeps the pre-call snapshot, the callee *)
(* may then call back into the contract, and CallReturn either finishes    *)
(* the handler or reverts to the snapshot.  A call whose require fails     *)
(* changes nothing: it is a stuttering step, and the ...Check operators    *)
(* give the revert reason the code would produce.                          *)
(***************************************************************************)
EXTENDS Integers, Sequences, FiniteSets, TLC

(***************************************************************************)
(* Bounds.  The contract's constants are scaled down so that every window  *)
(* boundary and the sold-out transition are reached:                       *)
(*   MAX_SUPPLY    AdvancedNFT.sol:30  (1000)                              *)
(*   MINT_PRICE    AdvancedNFT.sol:31  (0.01 ether; here the unit)         *)
(*   REVEAL_DELAY  AdvancedNFT.sol:34  (10)                                *)
(*   REVEAL_WINDOW AdvancedNFT.sol:38  (7200)                              *)
(***************************************************************************)
MAX_SUPPLY == 2
MINT_PRICE == 1
REVEAL_DELAY == 1
REVEAL_WINDOW == 1
MaxBlock == 4
MaxCommits == 2
NumCommitSecrets == 1
MaxIndex == 2
MaxPayments == 2
MaxPayment == 5
MaxDistributes == 2
MaxNonce == 2
MaxDepth == 2
WalletFunds == 1
MaxWallets == 3
MaxDeploys == 2
MaxDefects == 1
MaxFetches == 3

Min(a, b) == IF a <= b THEN a ELSE b
Max(a, b) == IF a >= b THEN a ELSE b

RECURSIVE SumOver(_, _)
SumOver(f, S) ==
    IF S = {} THEN 0
    ELSE LET x == CHOOSE y \in S : TRUE IN f[x] + SumOver(f, S \ {x})

(***************************************************************************)
(* Accounts.  alice is an externally owned account; bob is a contract      *)
(* account whose code is arbitrary: on an incoming call it may call back   *)
(* and may accept or reject.  owner deployed the contract (Ownable).       *)
(***************************************************************************)
ZeroAddress == "0x0"
Owner == "owner"
Users == {"alice", "bob"}
Recipients == Users \cup {ZeroAddress}
\* The contributors and shares of the deployment (60 and 40, in lowest terms);
\* the second contributor is a contract account.
contributors == <<"c1", "c2">>
Contributors == {contributors[i] : i \in 1 .. Len(contributors)}
shares == [c \in Contributors |-> IF c = "c1" THEN 3 ELSE 2]
totalShares == shares["c1"] + shares["c2"]
Accounts == Users \cup Contributors \cup {Owner}
IsContract(a) == a \in {"bob", "c2"}
AddrNum(a) == CASE a = "alice" -> 1 [] a = "bob" -> 2 [] a = "owner" -> 3 [] OTHER -> 0

(***************************************************************************)
(* keccak256, idealised: injective, and digests of differently shaped      *)
(* inputs never meet.  ZeroHash is bytes32(0); JunkHash is a digest with   *)
(* no known preimage.                                                      *)
(***************************************************************************)
ZeroHash == 0
JunkHash == 7
Secrets == 1 .. (NumCommitSecrets + 1)
\* keccak256(abi.encode(secret))
SecretHash(secret) == 100 + secret
\* keccak256(abi.encodePacked(index, account))
LeafHash(index, account) == 200 + 10 * index + AddrNum(account)
\* OpenZeppelin's commutative (sorted-pair) keccak256
HashPair(a, b) == 1000 + 1000 * Min(a, b) + Max(a, b)

RECURSIVE processProof(_, _)
processProof(proof, computed) ==
    IF proof = <<>> THEN computed
    ELSE processProof(Tail(proof), HashPair(computed, Head(proof)))

MerkleVerify(proof, root, leaf) == processProof(proof, leaf) = root

\* buildMerkleTree(addresses): the leaves keccak256(index, address) in array
\* order, and merkletreejs with { sortPairs: true } over them.  A layer pairs
\* its nodes left to right and hashes each pair sorted; an unpaired last node
\* moves up unchanged.
RECURSIVE createHashes(_)
createHashes(nodes) ==
    IF Len(nodes) = 0 THEN <<>>
    ELSE IF Len(nodes) = 1 THEN nodes
    ELSE <<HashPair(nodes[1], nodes[2])>> \o createHashes(SubSeq(nodes, 3, Len(nodes)))

RECURSIVE treeLayers(_)
treeLayers(nodes) ==
    IF Len(nodes) <= 1 THEN <<nodes>>
    ELSE <<nodes>> \o treeLayers(createHashes(nodes))

\* getProof(leaf): the position of the leaf (the last one equal to it), then
\* up the layers, the sibling of the node wherever it has one.
leafPosition(leaves, leaf) ==
    LET hits == {i \in 1 .. Len(leaves) : leaves[i] = leaf}
    IN  IF hits = {} THEN -1 ELSE (CHOOSE i \in hits : \A j \in hits : j <= i) - 1

RECURSIVE proofFrom(_, _, _)
proofFrom(layers, k, index) ==
    IF k > Len(layers) THEN <<>>
    ELSE LET layer == layers[k]
             pairIndex == IF index % 2 = 1 THEN index - 1 ELSE index + 1
             rest == proofFrom(layers, k + 1, index \div 2)
         IN  IF pairIndex < Len(layer) THEN <<layer[pairIndex + 1]>> \o rest ELSE rest

getProof(layers, leaf) ==
    LET index == leafPosition(layers[1], leaf)
    IN  IF index < 0 THEN <<>> ELSE proofFrom(layers, 1, index)

\* Mutant of buildMerkleTree: the leaf hashes the address alone.
buildMerkleTreeAddressOnly(addresses) ==
    LET leaves == [i \in 1 .. Len(addresses) |-> LeafHash(0, addresses[i])]
        layers == treeLayers(leaves)
        lastAt(a) == CHOOSE i \in 1 .. Len(addresses) :
                        /\ addresses[i] = a
                        /\ \A j \in 1 .. Len(addresses) : addresses[j] = a => j <= i
    IN  [root |-> layers[Len(layers)][1],
         claims |-> [a \in {addresses[i] : i \in 1 .. Len(addresses)} |->
                       [index |-> lastAt(a) - 1,
                        proof |-> getProof(layers, leaves[lastAt(a)])]]]

\* claims[address] is written once per position, so an address keeps the
\* claim of its last position.
buildMerkleTree(addresses) ==
    LET leaves == [i \in 1 .. Len(addresses) |-> LeafHash(i - 1, addresses[i])]
        layers == treeLayers(leaves)
        lastAt(a) == CHOOSE i \in 1 .. Len(addresses) :
                        /\ addresses[i] = a
                        /\ \A j \in 1 .. Len(addresses) : addresses[j] = a => j <= i
    IN  [root |-> layers[Len(layers)][1],
         claims |-> [a \in {addresses[i] : i \in 1 .. Len(addresses)} |->
                       [index |-> lastAt(a) - 1,
                        proof |-> getProof(layers, leaves[lastAt(a)])]]]

\* The allowlist the deployment script hands to buildMerkleTree.
AllowList == <<"alice", "bob">>
Indices == 0 .. MaxIndex
CommitHashes == {ZeroHash} \cup {SecretHash(s) : s \in 1 .. NumCommitSecrets}

(***************************************************************************)
(* Rarity.                                                                 *)
(***************************************************************************)
Tiers == {"Legendary", "Rare", "Uncommon", "Common"}

\* uint256(keccak256(...)) % 10000: the rolls are 0 .. RollModulus - 1.
RollModulus == 10000
\* The default of axiosWithRetries' parameter retries.
retries == 3

\* Mutant of RarityOf: the thresholds taken inclusive.
RarityOfInclusive(roll) ==
    IF roll <= 10 THEN "Legendary"
    ELSE IF roll <= 500 THEN "Rare"
    ELSE IF roll <= 2500 THEN "Uncommon"
    ELSE "Common"

RarityOf(rarityRoll) ==
    IF rarityRoll < 10 THEN "Legendary"
    ELSE IF rarityRoll < 500 THEN "Rare"
    ELSE IF rarityRoll < 2500 THEN "Uncommon"
    ELSE "Common"

\* The roll a mint of the lifecycle model draws (the tiers are checked apart).
RollSamples == {9}

(***************************************************************************)
(* Contract state of AdvancedNFT, and the environment.                     *)
(***************************************************************************)
VARIABLES
    saleState, totalMinted, tokenRarity, airdropCommits, publicCommits,
    publicEscrow, claimedBitmap, claimedMap, useBitmapForAirdrop, tokenMatrix,
    withdrawBalance, owners, status, balance,
    blockNumber, frame, last,
    mintLog, revealLog, received, paidOut, credited, sent, whitelist,
    nCommits, nPayments, nDistributes,
    nonces, isOwner, walletOwner, wbalance, executedOk, execCount, wstack, wlast,
    sampleRoll, tierCount,
    walletOf, created, flast, deployReq,
    relay,
    etherscanApiQueue, fetch, nFetches,
    form

nftVars ==
    <<saleState, totalMinted, tokenRarity, airdropCommits, publicCommits,
      publicEscrow, claimedBitmap, claimedMap, useBitmapForAirdrop, tokenMatrix,
      withdrawBalance, owners, status, balance,
      mintLog, revealLog, received, paidOut, credited, sent, whitelist>>

counters == <<nCommits, nPayments, nDistributes>>

\* SimpleWallet: its storage (nonces, isOwner), the history kept beside it
\* (executedOk the meta-transactions that succeeded, execCount[s] how many of
\* them had from = s), the executeMetaTransaction calls whose dispatched call
\* has not returned yet (wstack, innermost last) and the last call that ended.
walletVars ==
    <<nonces, isOwner, walletOwner, wbalance, executedOk, execCount, wstack, wlast>>

nftSide == <<nftVars, blockNumber, frame, last, counters>>

\* The sample of rarity rolls: the roll to draw next, and how many of the
\* rolls drawn so far fell into each tier.
rarityVars == <<sampleRoll, tierCount>>

\* SimpleWalletFactory: its storage (walletOf), the wallets it has created,
\* oldest first, its last call, and the /deploy-wallet requests the relayer
\* is serving.  relay is the /relay request served now or last.
factoryVars == <<walletOf, created, flast, deployReq>>

\* What neither AdvancedNFT nor SimpleWallet touches.
\* The frontend's API client: the settled state of the promise at the tail
\* of the Etherscan queue, the axiosWithRetries call running now or last,
\* and how many calls were made.
clientVars == <<etherscanApiQueue, fetch, nFetches, form>>

sideVars == <<rarityVars, factoryVars, relay, clientVars>>

vars == <<nftSide, walletVars, sideVars>>

TokenIds == 0 .. (MAX_SUPPLY - 1)
NoCommit == [hash |-> ZeroHash, blockNumber |-> 0]
NoFrame == [kind |-> "none"]
NoLast == [op |-> "none"]

\* Everything a revert rolls back, as one record: the contract's storage and
\* balance, and the history kept beside them (what the emitted events and the
\* transfers would tell an observer): mintLog the ids minted, in order;
\* revealLog[i] the successful revealAirdrop calls that named index i; received
\* the value ever paid in; paidOut[c] the value ever withdrawn by c; credited[c]
\* the value ever credited to c; sent[a] the value the contract ever
\* transferred to account a; whitelist the address array the deployment built
\* the tree from.
Cur ==
    [saleState |-> saleState, totalMinted |-> totalMinted, tokenRarity |-> tokenRarity,
     airdropCommits |-> airdropCommits, publicCommits |-> publicCommits,
     publicEscrow |-> publicEscrow, claimedBitmap |-> claimedBitmap,
     claimedMap |-> claimedMap, useBitmapForAirdrop |-> useBitmapForAirdrop,
     tokenMatrix |-> tokenMatrix, withdrawBalance |-> withdrawBalance,
     owners |-> owners, status |-> status, balance |-> balance, mintLog |-> mintLog,
     revealLog |-> revealLog, received |-> received, paidOut |-> paidOut,
     credited |-> credited, sent |-> sent, whitelist |-> whitelist]

Install(s) ==
    /\ saleState' = s.saleState
    /\ totalMinted' = s.totalMinted
    /\ tokenRarity' = s.tokenRarity
    /\ airdropCommits' = s.airdropCommits
    /\ publicCommits' = s.publicCommits
    /\ publicEscrow' = s.publicEscrow
    /\ claimedBitmap' = s.claimedBitmap
    /\ claimedMap' = s.claimedMap
    /\ useBitmapForAirdrop' = s.useBitmapForAirdrop
    /\ tokenMatrix' = s.tokenMatrix
    /\ withdrawBalance' = s.withdrawBalance
    /\ owners' = s.owners
    /\ status' = s.status
    /\ balance' = s.balance
    /\ mintLog' = s.mintLog
    /\ revealLog' = s.revealLog
    /\ sent' = s.sent
    /\ received' = s.received
    /\ paidOut' = s.paidOut
    /\ credited' = s.credited
    /\ whitelist' = s.whitelist

\* The immutable root the constructor was given: the root buildMerkleTree
\* returned for the deployment's array.  Proofs are what a caller may submit:
\* the emitted proofs, the empty proof and a proof of one foreign digest.
merkleRoot == buildMerkleTree(whitelist).root

Proofs ==
    LET claims == buildMerkleTree(whitelist).claims
    IN  {<<>>, <<JunkHash>>} \cup {claims[a].proof : a \in DOMAIN claims}


(***************************************************************************)
(* Helpers of the contract.                                                *)
(***************************************************************************)
earliestReveal(c) == c.blockNumber + REVEAL_DELAY

\* Mutant of expiryBlock: the window counted from the commit block.
expiryBlockFromCommit(c) == c.blockNumber + REVEAL_WINDOW

expiryBlock(c) == c.blockNumber + REVEAL_DELAY + REVEAL_WINDOW

existsCommit(c) == c.hash # ZeroHash

\* Mutant of isExpired: the expiry block itself counts as expired.
isExpiredInclusive(c, blk) == existsCommit(c) /\ blk >= expiryBlock(c)

isExpired(c, blk) == existsCommit(c) /\ blk > expiryBlock(c)

\* getAirdropCommit and getPublicCommit at block blk (escrow is 0 in the
\* answer of getAirdropCommit, which has no such field).
getCommit(c, escrow, blk) ==
    IF ~existsCommit(c)
    THEN [hash |-> ZeroHash, blockNumber |-> 0, earliestRevealBlock |-> 0,
          expiryBlock |-> 0, expired |-> FALSE, escrow |-> 0]
    ELSE [hash |-> c.hash, blockNumber |-> c.blockNumber,
          earliestRevealBlock |-> earliestReveal(c), expiryBlock |-> expiryBlock(c),
          expired |-> isExpired(c, blk), escrow |-> escrow]

\* BitMaps.get / BitMaps.set: bucket index >> 8, bit index & 0xff of a 256-bit word.
bitmapGet(bitmap, index) ==
    (bitmap[index \div 256] \div (2 ^ (index % 256))) % 2 = 1

bitmapSet(bitmap, index) ==
    IF bitmapGet(bitmap, index) THEN bitmap
    ELSE [bitmap EXCEPT ![index \div 256] = @ + 2 ^ (index % 256)]

\* The claimed-set test and update of revealAirdrop, in the mode now selected.
isClaimed(s, index) ==
    IF s.useBitmapForAirdrop THEN bitmapGet(s.claimedBitmap, index)
    ELSE s.claimedMap[index]

setClaimed(s, index) ==
    IF s.useBitmapForAirdrop
    THEN [s EXCEPT !.claimedBitmap = bitmapSet(s.claimedBitmap, index)]
    ELSE [s EXCEPT !.claimedMap[index] = TRUE]

\* Mutant of slotTokenId: an unset slot is read as it is stored.
slotTokenIdStored(matrix, slot) == matrix[slot]

\* tokenMatrix[slot], an unset slot standing for its own index.
slotTokenId(matrix, slot) ==
    IF matrix[slot] = 0 /\ slot < MAX_SUPPLY THEN slot ELSE matrix[slot]

(***************************************************************************)
(* _mintRandom up to and including _mint.  randomIndex is                  *)
(* uint256(randomHash) % remaining and rarityRoll the second hash mod      *)
(* 10000; both depend on the previous block's hash, so the caller of this  *)
(* operator draws them.                                                    *)
(***************************************************************************)
\* Mutant of mintRandom: totalMinted is not incremented.
mintRandomNoCount(s, to, randomIndex, rarityRoll) ==
    LET assignedTokenId == slotTokenId(s.tokenMatrix, randomIndex)
        lastTokenId == slotTokenId(s.tokenMatrix, MAX_SUPPLY - s.totalMinted - 1)
    IN  [s EXCEPT !.tokenMatrix[randomIndex] = lastTokenId,
                  !.tokenRarity[assignedTokenId] = RarityOf(rarityRoll),
                  !.owners[assignedTokenId] = to,
                  !.mintLog = Append(@, assignedTokenId)]

mintRandom(s, to, randomIndex, rarityRoll) ==
    LET remaining == MAX_SUPPLY - s.totalMinted
        assignedTokenId == slotTokenId(s.tokenMatrix, randomIndex)
        lastIndex == remaining - 1
        lastTokenId == slotTokenId(s.tokenMatrix, lastIndex)
    IN  [s EXCEPT !.tokenMatrix[randomIndex] = lastTokenId,
                  !.tokenRarity[assignedTokenId] = RarityOf(rarityRoll),
                  !.totalMinted = @ + 1,
                  !.owners[assignedTokenId] = to,
                  !.mintLog = Append(@, assignedTokenId)]

\* The id _mintRandom is about to hand to _safeMint.
assignedId(s, randomIndex) == slotTokenId(s.tokenMatrix, randomIndex)

\* Mutant of finishMint: no sold-out transition.
finishMintNoTransition(s) == s

\* _mintRandom after _safeMint returned: the sold-out transition.
finishMint(s) ==
    IF s.totalMinted >= MAX_SUPPLY THEN [s EXCEPT !.saleState = "SoldOut"] ELSE s

(***************************************************************************)
(* The requires of each entry point, in the order of the code: the revert  *)
(* reason of a call made in the current state, or "ok".                    *)
(***************************************************************************)
nonReentrant(reason) ==
    IF status = "ENTERED" THEN "ReentrancyGuardReentrantCall" ELSE reason

\* Mutant of commitAirdropRequire: the "Already committed" require is left out.
commitAirdropRequireNoExisting(sender) ==
    IF saleState # "Presale" THEN "Presale is not active" ELSE "ok"

commitAirdropRequire(sender) ==
    IF saleState # "Presale" THEN "Presale is not active"
    ELSE IF airdropCommits[sender].hash # ZeroHash THEN "Already committed"
    ELSE "ok"

\* Mutant of mintRandomRequire: the supply require is left out.
mintRandomRequireNoCap == "ok"

mintRandomRequire ==
    IF ~(totalMinted < MAX_SUPPLY) THEN "All tokens have been minted" ELSE "ok"

revealAirdropRequire(sender, index, secret, proof) ==
    LET c == airdropCommits[sender] IN
    IF saleState # "Presale" THEN "Presale is not active"
    ELSE IF ~existsCommit(c) THEN "No commit"
    ELSE IF ~(blockNumber >= earliestReveal(c)) THEN "Reveal too early"
    ELSE IF ~(blockNumber <= expiryBlock(c)) THEN "Commit expired"
    ELSE IF SecretHash(secret) # c.hash THEN "Invalid secret"
    ELSE IF ~MerkleVerify(proof, merkleRoot, LeafHash(index, sender))
         THEN "Invalid Merkle proof"
    ELSE IF isClaimed(Cur, index) THEN "Already claimed"
    ELSE mintRandomRequire

commitPublicRequire(sender, value) ==
    IF saleState # "PublicSale" THEN "Public sale is not active"
    ELSE IF publicCommits[sender].hash # ZeroHash THEN "Already committed"
    ELSE IF value # MINT_PRICE THEN "Incorrect payment"
    ELSE "ok"

\* Mutant of mintForImplRequire: the sale-state require is left out.
mintForImplRequireNoGate(committer, recipient, secret) ==
    LET c == publicCommits[committer] IN
    IF recipient = ZeroAddress THEN "recipient=0"
    ELSE IF ~existsCommit(c) THEN "No commit"
    ELSE IF ~(blockNumber >= earliestReveal(c)) THEN "Reveal too early"
    ELSE IF ~(blockNumber <= expiryBlock(c)) THEN "Commit expired"
    ELSE IF SecretHash(secret) # c.hash THEN "Invalid secret"
    ELSE IF publicEscrow[committer] # MINT_PRICE THEN "Escrow mismatch"
    ELSE mintRandomRequire

mintForImplRequire(committer, recipient, secret) ==
    LET c == publicCommits[committer] IN
    IF saleState # "PublicSale" THEN "Public sale is not active"
    ELSE IF recipient = ZeroAddress THEN "recipient=0"
    ELSE IF ~existsCommit(c) THEN "No commit"
    ELSE IF ~(blockNumber >= earliestReveal(c)) THEN "Reveal too early"
    ELSE IF ~(blockNumber <= expiryBlock(c)) THEN "Commit expired"
    ELSE IF SecretHash(secret) # c.hash THEN "Invalid secret"
    ELSE IF publicEscrow[committer] # MINT_PRICE THEN "Escrow mismatch"
    ELSE mintRandomRequire

cancelAirdropCommitRequire(sender) ==
    IF ~existsCommit(airdropCommits[sender]) THEN "No commit" ELSE "ok"

cancelPublicCommitRequire(sender) ==
    IF ~existsCommit(publicCommits[sender]) THEN "No commit" ELSE "ok"

ownerCancelExpiredAirdropRequire(sender, user) ==
    IF sender # Owner THEN "OwnableUnauthorizedAccount"
    ELSE IF ~existsCommit(airdropCommits[user]) THEN "No commit"
    ELSE IF ~isExpired(airdropCommits[user], blockNumber) THEN "Not expired"
    ELSE "ok"

ownerCancelExpiredPublicRequire(sender, user) ==
    IF sender # Owner THEN "OwnableUnauthorizedAccount"
    ELSE IF ~existsCommit(publicCommits[user]) THEN "No commit"
    ELSE IF ~isExpired(publicCommits[user], blockNumber) THEN "Not expired"
    ELSE "ok"

\* The outcome of the external entry points (each is nonReentrant).
commitAirdropCheck(sender) == nonReentrant(commitAirdropRequire(sender))

revealAirdropCheck(sender, index, secret, proof) ==
    nonReentrant(revealAirdropRequire(sender, index, secret, proof))

commitPublicCheck(sender, value) == nonReentrant(commitPublicRequire(sender, value))

mintForCheck(sender, recipient, secret) ==
    nonReentrant(mintForImplRequire(sender, recipient, secret))

cancelAirdropCommitCheck(sender) == nonReentrant(cancelAirdropCommitRequire(sender))

cancelPublicCommitCheck(sender) == nonReentrant(cancelPublicCommitRequire(sender))

(***************************************************************************)
(* The state changes of each entry point up to its external call.          *)
(***************************************************************************)
commitAirdropEffect(s, sender, commitHash, blk) ==
    [s EXCEPT !.airdropCommits[sender] = [hash |-> commitHash, blockNumber |-> blk]]

commitPublicEffect(s, sender, commitHash, value, blk) ==
    [s EXCEPT !.publicCommits[sender] = [hash |-> commitHash, blockNumber |-> blk],
              !.publicEscrow[sender] = @ + value,
              !.balance = @ + value,
              !.received = @ + value]

\* Mutant of revealAirdropEffect: the commitment is not deleted.
revealAirdropEffectKeepsCommit(s, sender, index) ==
    [setClaimed(s, index) EXCEPT !.revealLog[index] = @ + 1]

revealAirdropEffect(s, sender, index) ==
    [setClaimed(s, index) EXCEPT !.airdropCommits[sender] = NoCommit,
                                 !.revealLog[index] = @ + 1]

\* Mutant of mintForImplEffect: the commitments of all addresses are deleted.
mintForImplEffectAllCommits(s, committer) ==
    [s EXCEPT !.publicCommits = [a \in Users |-> NoCommit],
              !.publicEscrow[committer] = 0]

\* Mutant of mintForImplEffect: the commitment is not deleted before the mint.
mintForImplEffectKeepsCommit(s, committer) ==
    [s EXCEPT !.publicEscrow[committer] = 0]

mintForImplEffect(s, committer) ==
    [s EXCEPT !.publicCommits[committer] = NoCommit, !.publicEscrow[committer] = 0]

cancelAirdropEffect(s, user) == [s EXCEPT !.airdropCommits[user] = NoCommit]

\* Mutant of cancelPublicEffect: nothing is deleted before the refund call.
cancelPublicEffectNothing(s, user) == s

\* cancelPublicCommit / ownerCancelExpiredPublic before the refund call.
cancelPublicEffect(s, user) ==
    [s EXCEPT !.publicCommits[user] = NoCommit, !.publicEscrow[user] = 0]

\* address.call{value: v}(""): the value leaves the contract's balance.
sendValue(s, to, v) == [s EXCEPT !.balance = @ - v, !.sent[to] = @ + v]

\* receive(): value paid into the contract.
receiveEffect(s, value) == [s EXCEPT !.balance = @ + value, !.received = @ + value]

distributeFundsRequire(sender) ==
    IF sender # Owner THEN "OwnableUnauthorizedAccount"
    ELSE IF ~(balance > 0) THEN "No funds to distribute"
    ELSE "ok"

\* distributeFunds: every contributor is credited its share of the current balance.
distributeFundsEffect(s) ==
    LET amount == [c \in Contributors |-> (s.balance * shares[c]) \div totalShares]
    IN  [s EXCEPT !.withdrawBalance = [c \in Contributors |-> @[c] + amount[c]],
                  !.credited = [c \in Contributors |-> @[c] + amount[c]]]

withdrawRequire(sender) ==
    IF ~(withdrawBalance[sender] > 0) THEN "Nothing to withdraw" ELSE "ok"

withdrawCheck(sender) == nonReentrant(withdrawRequire(sender))

\* Mutant of withdrawEffect: the credited balance is left standing.
withdrawEffectKeepsCredit(s, sender) ==
    [s EXCEPT !.paidOut[sender] = @ + s.withdrawBalance[sender]]

\* withdraw before its transfer: the credited balance is zeroed, the amount
\* read before is what the transfer carries.
withdrawEffect(s, sender) ==
    [s EXCEPT !.withdrawBalance[sender] = 0,
              !.paidOut[sender] = @ + s.withdrawBalance[sender]]

entered(s) == [s EXCEPT !.status = "ENTERED"]

notEntered(s) == [s EXCEPT !.status = "NOT_ENTERED"]


(***************************************************************************)
(* The record of the last call that ran to its end: what was called, by    *)
(* whom, with which arguments, at which block (blk) and in which sale      *)
(* state (sale), against a commitment of which block (cblk), the value it  *)
(* sent out (amt) and how it ended.                                        *)
(***************************************************************************)
Call(op, who, res, index, secret, proof, to, cblk, amt) ==
    [op |-> op, who |-> who, res |-> res, index |-> index, secret |-> secret,
     proof |-> proof, to |-> to, blk |-> blockNumber, sale |-> saleState,
     cblk |-> cblk, amt |-> amt]

Failed(op, reason) == [op EXCEPT !.res = reason]

\* An external call to a contract account is under way.
InCall == frame.kind # "none"

OpenFrame(kind, callee, op) ==
    frame' = [kind |-> kind, callee |-> callee, snap |-> Cur, op |-> op]

(***************************************************************************)
(* Actions: one per external entry point.                                  *)
(***************************************************************************)
\* commitAirdrop, as long as fewer than cap commits have been made.
CommitAirdropUpTo(sender, commitHash, cap) ==
    /\ ~InCall
    /\ nCommits < cap
    /\ commitAirdropCheck(sender) = "ok"
    /\ Install(commitAirdropEffect(Cur, sender, commitHash, blockNumber))
    /\ last' = Call("commitAirdrop", sender, "ok", 0, 0, <<>>, sender, blockNumber, 0)
    /\ nCommits' = nCommits + 1
    /\ UNCHANGED <<sideVars, walletVars, blockNumber, frame, nPayments, nDistributes>>

CommitAirdrop(sender, commitHash) == CommitAirdropUpTo(sender, commitHash, MaxCommits)

\* commitPublic, as long as fewer than cap commits have been made.
CommitPublicUpTo(sender, commitHash, value, cap) ==
    /\ ~InCall
    /\ nCommits < cap
    /\ commitPublicCheck(sender, value) = "ok"
    /\ Install(commitPublicEffect(Cur, sender, commitHash, value, blockNumber))
    /\ last' = Call("commitPublic", sender, "ok", 0, 0, <<>>, sender, blockNumber, value)
    /\ nCommits' = nCommits + 1
    /\ UNCHANGED <<sideVars, walletVars, blockNumber, frame, nPayments, nDistributes>>

CommitPublic(sender, commitHash, value) ==
    CommitPublicUpTo(sender, commitHash, value, MaxCommits)

\* _safeMint: _mint reverts on an id that already has an owner; a recipient with
\* code is then asked onERC721Received, and the mint stands only if it accepts.
SafeMint(s, op, to, randomIndex, rarityRoll) ==
    /\ s.owners[assignedId(s, randomIndex)] = ZeroAddress
    /\ IF IsContract(to)
       THEN /\ Install(entered(mintRandom(s, to, randomIndex, rarityRoll)))
            /\ OpenFrame("mint", to, op)
            /\ UNCHANGED last
       ELSE /\ Install(finishMint(mintRandom(s, to, randomIndex, rarityRoll)))
            /\ last' = op
            /\ UNCHANGED frame

RevealAirdrop(sender, index, secret, proof, randomIndex, rarityRoll) ==
    /\ ~InCall
    /\ revealAirdropCheck(sender, index, secret, proof) = "ok"
    /\ randomIndex < MAX_SUPPLY - totalMinted
    /\ SafeMint(revealAirdropEffect(Cur, sender, index),
                Call("revealAirdrop", sender, "ok", index, secret, proof, sender,
                     airdropCommits[sender].blockNumber, 0),
                sender, randomIndex, rarityRoll)
    /\ UNCHANGED <<sideVars, walletVars, blockNumber, counters>>

\* mintFor and revealPublicFor: both run _mintForImpl(msg.sender, recipient, secret).
MintFor(sender, recipient, secret, randomIndex, rarityRoll) ==
    /\ ~InCall
    /\ mintForCheck(sender, recipient, secret) = "ok"
    /\ randomIndex < MAX_SUPPLY - totalMinted
    /\ SafeMint(mintForImplEffect(Cur, sender),
                Call("mintFor", sender, "ok", 0, secret, <<>>, recipient,
                     publicCommits[sender].blockNumber, 0),
                recipient, randomIndex, rarityRoll)
    /\ UNCHANGED <<sideVars, walletVars, blockNumber, counters>>

CancelAirdropCommit(sender) ==
    /\ ~InCall
    /\ cancelAirdropCommitCheck(sender) = "ok"
    /\ Install(cancelAirdropEffect(Cur, sender))
    /\ last' = Call("cancelAirdropCommit", sender, "ok", 0, 0, <<>>, sender,
                    airdropCommits[sender].blockNumber, 0)
    /\ UNCHANGED <<sideVars, walletVars, blockNumber, frame, nCommits, nPayments, nDistributes>>

OwnerCancelExpiredAirdrop(user) ==
    /\ ~InCall
    /\ nonReentrant(ownerCancelExpiredAirdropRequire(Owner, user)) = "ok"
    /\ Install(cancelAirdropEffect(Cur, user))
    /\ last' = Call("ownerCancelExpiredAirdrop", Owner, "ok", 0, 0, <<>>, user,
                    airdropCommits[user].blockNumber, 0)
    /\ UNCHANGED <<sideVars, walletVars, blockNumber, frame, nCommits, nPayments, nDistributes>>

\* payable(to).call{value: refund}(""): fails when the balance is short; an
\* account without code accepts, one with code runs its receive function.
Refund(s, op, to, refund) ==
    /\ s.balance >= refund
    /\ IF IsContract(to)
       THEN /\ Install(entered(sendValue(s, to, refund)))
            /\ OpenFrame(IF op.op = "withdraw" THEN "withdraw" ELSE "refund", to, op)
            /\ UNCHANGED last
       ELSE /\ Install(sendValue(s, to, refund))
            /\ last' = op
            /\ UNCHANGED frame

CancelPublicCommit(sender) ==
    /\ ~InCall
    /\ cancelPublicCommitCheck(sender) = "ok"
    /\ Refund(cancelPublicEffect(Cur, sender),
              Call("cancelPublicCommit", sender, "ok", 0, 0, <<>>, sender,
                   publicCommits[sender].blockNumber, publicEscrow[sender]),
              sender, publicEscrow[sender])
    /\ UNCHANGED <<sideVars, walletVars, blockNumber, counters>>

\* Mutant of OwnerCancelExpiredPublic: the refund goes to the caller.
OwnerCancelExpiredPublicToOwner(user) ==
    /\ ~InCall
    /\ nonReentrant(ownerCancelExpiredPublicRequire(Owner, user)) = "ok"
    /\ Refund(cancelPublicEffect(Cur, user),
              Call("ownerCancelExpiredPublic", Owner, "ok", 0, 0, <<>>, user,
                   publicCommits[user].blockNumber, publicEscrow[user]),
              Owner, publicEscrow[user])
    /\ UNCHANGED <<sideVars, walletVars, blockNumber, counters>>

OwnerCancelExpiredPublic(user) ==
    /\ ~InCall
    /\ nonReentrant(ownerCancelExpiredPublicRequire(Owner, user)) = "ok"
    /\ Refund(cancelPublicEffect(Cur, user),
              Call("ownerCancelExpiredPublic", Owner, "ok", 0, 0, <<>>, user,
                   publicCommits[user].blockNumber, publicEscrow[user]),
              user, publicEscrow[user])
    /\ UNCHANGED <<sideVars, walletVars, blockNumber, counters>>

SetSaleState(newState) ==
    /\ ~InCall
    /\ newState # saleState
    /\ saleState' = newState
    /\ last' = [Call("setSaleState", Owner, "ok", 0, 0, <<>>, Owner, 0, 0)
                   EXCEPT !.sale = newState]
    /\ UNCHANGED <<totalMinted, tokenRarity, airdropCommits, publicCommits,
                   publicEscrow, claimedBitmap, claimedMap, useBitmapForAirdrop,
                   tokenMatrix, withdrawBalance, owners, status, balance, mintLog,
                   revealLog, received, paidOut, credited, sent, whitelist,
                   blockNumber, frame, counters, walletVars, sideVars>>

SetUseBitmap(useBitmap) ==
    /\ ~InCall
    /\ useBitmap # useBitmapForAirdrop
    /\ useBitmapForAirdrop' = useBitmap
    /\ last' = Call("setUseBitmap", Owner, "ok", 0, 0, <<>>, Owner, 0, 0)
    /\ UNCHANGED <<saleState, totalMinted, tokenRarity, airdropCommits, publicCommits,
                   publicEscrow, claimedBitmap, claimedMap, tokenMatrix,
                   withdrawBalance, owners, status, balance, mintLog,
                   revealLog, received, paidOut, credited, sent, whitelist,
                   blockNumber, frame, counters, walletVars, sideVars>>

\* receive(): anyone may send value to the contract.
Receive(value) ==
    /\ ~InCall
    /\ nPayments < MaxPayments
    /\ Install(receiveEffect(Cur, value))
    /\ last' = Call("receive", ZeroAddress, "ok", 0, 0, <<>>, ZeroAddress, 0, value)
    /\ nPayments' = nPayments + 1
    /\ UNCHANGED <<sideVars, walletVars, blockNumber, frame, nCommits, nDistributes>>

DistributeFunds ==
    /\ ~InCall
    /\ nDistributes < MaxDistributes
    /\ distributeFundsRequire(Owner) = "ok"
    /\ Install(distributeFundsEffect(Cur))
    /\ last' = Call("distributeFunds", Owner, "ok", 0, 0, <<>>, Owner, 0, 0)
    /\ nDistributes' = nDistributes + 1
    /\ UNCHANGED <<sideVars, walletVars, blockNumber, frame, nCommits, nPayments>>

\* withdraw: the transfer of the credited amount is a call like the refund.
Withdraw(sender) ==
    /\ ~InCall
    /\ withdrawCheck(sender) = "ok"
    /\ Refund(withdrawEffect(Cur, sender),
              Call("withdraw", sender, "ok", 0, 0, <<>>, sender, 0, withdrawBalance[sender]),
              sender, withdrawBalance[sender])
    /\ UNCHANGED <<sideVars, walletVars, blockNumber, counters>>

\* Mutant of CallReturn: the failure of the external call is ignored, what
\* the handler did before the call stays.
CallReturnKeepsState(accepted) ==
    /\ InCall
    /\ Install(notEntered(IF frame.kind = "mint" THEN finishMint(Cur) ELSE Cur))
    /\ last' = IF accepted THEN frame.op ELSE Failed(frame.op, "failed")
    /\ frame' = NoFrame
    /\ UNCHANGED <<sideVars, walletVars, blockNumber, counters>>

\* The callee of the pending external call returns: accepted, the handler runs
\* to its end; rejected, the whole call reverts to the state it started from.
CallReturn(accepted) ==
    /\ InCall
    /\ IF accepted
       THEN /\ Install(notEntered(IF frame.kind = "mint" THEN finishMint(Cur) ELSE Cur))
            /\ last' = frame.op
       ELSE /\ Install(frame.snap)
            /\ last' = Failed(frame.op,
                              CASE frame.kind = "mint" -> "ERC721InvalidReceiver"
                                [] frame.kind = "refund" -> "Refund failed"
                                [] OTHER -> "Withdrawal failed")
    /\ frame' = NoFrame
    /\ UNCHANGED <<sideVars, walletVars, blockNumber, counters>>

\* A block is mined; the call record is that of the current block only.
AdvanceBlock ==
    /\ ~InCall
    /\ blockNumber < MaxBlock
    /\ blockNumber' = blockNumber + 1
    /\ last' = NoLast
    /\ UNCHANGED <<sideVars, walletVars, nftVars, frame, counters>>

(***************************************************************************)
(* SimpleWallet.  The wallet of initialOwner WalletOwner; signatures are   *)
(* made by the keys of Signers over EIP-712 digests.  keccak256 and the    *)
(* EIP-712 encoding are taken as injective: a digest is the tuple of what  *)
(* it is computed from.                                                    *)
(***************************************************************************)
WalletOwner == "wowner"
Signers == {WalletOwner, "signer1"}
ThisWallet == "wallet"
Domains == {ThisWallet, "wallet2"}
Targets == {"target"}
Values == {0, 1}
Datas == {"d1", "d2"}

\* Mutant of structHash: the nonce is left out of what is signed.
structHashNoNonce(from, nonce, to, value, data) ==
    <<"MetaTransaction", from, 0, to, value, data>>

\* keccak256(abi.encode(META_TX_TYPEHASH, from, nonce, to, value, keccak256(data)))
structHash(from, nonce, to, value, data) ==
    <<"MetaTransaction", from, nonce, to, value, data>>

\* Mutant of hashTypedDataV4: the domain leaves the verifying contract out.
hashTypedDataV4NoContract(verifyingContract, sh) == <<"SimpleWallet", "1", "", sh>>

\* _hashTypedDataV4: the struct hash under the domain separator of the
\* verifying contract (name "SimpleWallet", version "1").
hashTypedDataV4(verifyingContract, sh) == <<"SimpleWallet", "1", verifyingContract, sh>>

\* The signature of key over digest; recover gives the key back for that
\* digest and an address of nobody for any other.
Sign(key, digest) == [key |-> key, digest |-> digest]

recover(digest, signature) ==
    IF signature.digest = digest THEN signature.key ELSE "0xnobody"

Signatures ==
    {Sign(k, hashTypedDataV4(d, structHash(f, n, to, v, data))) :
        k \in Signers, d \in Domains, f \in Signers, n \in 0 .. MaxNonce,
        to \in Targets, v \in Values, data \in Datas}

\* Everything a revert of the wallet rolls back.
WCur ==
    [nonces |-> nonces, isOwner |-> isOwner, walletOwner |-> walletOwner,
     wbalance |-> wbalance, executedOk |-> executedOk, execCount |-> execCount]

WInstall(w) ==
    /\ nonces' = w.nonces
    /\ isOwner' = w.isOwner
    /\ walletOwner' = w.walletOwner
    /\ wbalance' = w.wbalance
    /\ executedOk' = w.executedOk
    /\ execCount' = w.execCount

\* The requires of executeMetaTransaction before the nonce is touched.
executeMetaTransactionRequire(w, from, to, value, data, signature) ==
    IF ~(w.isOwner[from] \/ from = walletOwner) THEN "unauthorized signer"
    ELSE IF recover(hashTypedDataV4(ThisWallet,
                        structHash(from, w.nonces[from], to, value, data)),
                    signature) # from
         THEN "Invalid signature"
    ELSE "ok"

\* Mutant of incrementNonce: the nonce is left as it was.
incrementNonceSkipped(w, from) == w

\* unchecked { ++nonces[from]; }
incrementNonce(w, from) == [w EXCEPT !.nonces[from] = @ + 1]

MetaTx(from, to, value, data, signature) ==
    [from |-> from, to |-> to, value |-> value, data |-> data, signature |-> signature]

\* to.call{value: value}(data) leaves the wallet with value less.
forwardValue(w, value) == [w EXCEPT !.wbalance = @ - value]

\* Mutant of ExecuteMetaTransaction: the call is dispatched with the nonce
\* not yet incremented.
ExecuteMetaTransactionNonceLater(from, to, value, data, signature) ==
    /\ Len(wstack) < MaxDepth
    /\ nonces[from] < MaxNonce
    /\ executeMetaTransactionRequire(WCur, from, to, value, data, signature) = "ok"
    /\ value <= wbalance
    /\ WInstall(forwardValue(WCur, value))
    /\ wstack' = Append(wstack, [tx |-> MetaTx(from, to, value, data, signature),
                                 k |-> nonces[from], snap |-> WCur])
    /\ UNCHANGED <<wlast, nftSide, sideVars>>

\* executeMetaTransaction up to its to.call{value}(data): the dispatched call
\* runs with the nonce already incremented and the value gone, and may call
\* the wallet again.  A value the wallet does not hold makes the call fail
\* at once, and with it the meta-transaction.
ExecuteMetaTransaction(from, to, value, data, signature) ==
    /\ Len(wstack) < MaxDepth
    /\ nonces[from] < MaxNonce
    /\ executeMetaTransactionRequire(WCur, from, to, value, data, signature) = "ok"
    /\ IF value > wbalance
       THEN /\ wlast' = [op |-> "executeMetaTransaction", from |-> from,
                         k |-> nonces[from], v |-> value,
                         res |-> "Meta-transaction call failed"]
            /\ UNCHANGED <<nonces, isOwner, walletOwner, wbalance, executedOk,
                           execCount, wstack>>
       ELSE /\ WInstall(forwardValue(incrementNonce(WCur, from), value))
            /\ wstack' = Append(wstack, [tx |-> MetaTx(from, to, value, data, signature),
                                         k |-> nonces[from], snap |-> WCur])
            /\ UNCHANGED wlast
    /\ UNCHANGED <<nftSide, sideVars>>

\* Mutant of DispatchReturn: a failed dispatch keeps the advanced nonce.
DispatchReturnKeepsNonce(ok) ==
    /\ wstack # <<>>
    /\ LET f == wstack[Len(wstack)]
       IN  /\ IF ok
              THEN WInstall([WCur EXCEPT !.executedOk = @ \cup {[tx |-> f.tx, k |-> f.k]},
                                         !.execCount[f.tx.from] = @ + 1])
              ELSE WInstall([f.snap EXCEPT !.nonces = nonces])
           /\ wlast' = [op |-> "executeMetaTransaction", from |-> f.tx.from, k |-> f.k,
                        v |-> f.tx.value,
                        res |-> IF ok THEN "ok" ELSE "Meta-transaction call failed"]
    /\ wstack' = SubSeq(wstack, 1, Len(wstack) - 1)
    /\ UNCHANGED <<nftSide, sideVars>>

\* The dispatched call returns: ok, the meta-transaction has succeeded; not
\* ok, require(ok, ...) reverts it and everything done inside it.
DispatchReturn(ok) ==
    /\ wstack # <<>>
    /\ LET f == wstack[Len(wstack)]
       IN  /\ IF ok
              THEN WInstall([WCur EXCEPT !.executedOk = @ \cup {[tx |-> f.tx, k |-> f.k]},
                                         !.execCount[f.tx.from] = @ + 1])
              ELSE WInstall(f.snap)
           /\ wlast' = [op |-> "executeMetaTransaction", from |-> f.tx.from, k |-> f.k,
                        v |-> f.tx.value,
                        res |-> IF ok THEN "ok" ELSE "Meta-transaction call failed"]
    /\ wstack' = SubSeq(wstack, 1, Len(wstack) - 1)
    /\ UNCHANGED <<nftSide, sideVars>>

\* addOwner, called by owner().
AddOwner(a) ==
    /\ wstack = <<>>
    /\ a # ZeroAddress
    /\ isOwner' = [isOwner EXCEPT ![a] = TRUE]
    /\ wlast' = [op |-> "addOwner", from |-> a, k |-> 0, v |-> 0, res |-> "ok"]
    /\ UNCHANGED <<nonces, walletOwner, wbalance, executedOk, execCount, wstack, nftSide, sideVars>>

\* removeOwner, called by owner().
RemoveOwner(a) ==
    /\ wstack = <<>>
    /\ a # walletOwner
    /\ isOwner' = [isOwner EXCEPT ![a] = FALSE]
    /\ wlast' = [op |-> "removeOwner", from |-> a, k |-> 0, v |-> 0, res |-> "ok"]
    /\ UNCHANGED <<nonces, walletOwner, wbalance, executedOk, execCount, wstack, nftSide, sideVars>>

\* Ownable.transferOwnership, called by owner(): the new owner is not
\* entered into isOwner, and the old one is not taken out of it.
TransferOwnership(newOwner) ==
    /\ wstack = <<>>
    /\ newOwner # ZeroAddress
    /\ newOwner # walletOwner
    /\ walletOwner' = newOwner
    /\ wlast' = [op |-> "transferOwnership", from |-> newOwner, k |-> 0, v |-> 0,
                 res |-> "ok"]
    /\ UNCHANGED <<nonces, isOwner, wbalance, executedOk, execCount, wstack, nftSide, sideVars>>

(***************************************************************************)
(* The relayer: what a request body may hold, and how its error handler    *)
(* answers.  A body field is absent (Undefined), empty, or some text;      *)
(* isAddress and isBytesLike are ethers' tests of that text.               *)
(***************************************************************************)
Undefined == "undefined"

\* JavaScript's !x for a body field.
falsy(x) == x \in {Undefined, "null", ""}

\* ethers.isAddress: text that is an address.
isAddress(x) ==
    x \in Accounts \cup Signers \cup Domains \cup Targets \cup {ZeroAddress}

\* What a thrown error carries: ethers' code, the revert reason (Undefined
\* when there is none) and the message.
Err(code, reason, message) == [code |-> code, reason |-> reason, message |-> message]

\* What sending a transaction throws: the revert reason of the gas estimate
\* when the contract reverts there, else the fault of the submission.
sendError(reason, fault) ==
    IF reason # "ok"
    THEN Err("CALL_EXCEPTION", reason, "execution reverted: " \o reason)
    ELSE IF fault = "INSUFFICIENT_FUNDS"
    THEN Err(fault, Undefined, "insufficient funds for intrinsic transaction cost")
    ELSE Err(fault, Undefined, "could not detect network")

\* What tx.wait() throws when the transaction was mined and reverted: no
\* reason is known.
waitError == Err("CALL_EXCEPTION", Undefined, "transaction execution reverted")

\* The messages of the model that contain the text "Invalid" or "Bad ABI".
includesInvalid(msg) == msg \in {"Invalid signature"}

NoResponse ==
    [status |-> 0, success |-> Undefined, error |-> Undefined,
     walletAddress |-> Undefined, txHash |-> Undefined]

Response(statusCode, success, error) ==
    [NoResponse EXCEPT !.status = statusCode, !.success = success, !.error = error]

\* handleTransactionError of the two builds of the relayer: the long-running
\* server (relayer/server.js) and the serverless handlers (api/).
handleTransactionError(impl, error) ==
    IF impl = "server"
    THEN IF error.code = "INSUFFICIENT_FUNDS"
         THEN Response(503, "false",
                       "Relayer is out of funds. Please notify the administrator.")
         ELSE IF error.reason # Undefined
         THEN Response(400, "false", error.reason)
         ELSE Response(500, "false", error.message)
    ELSE LET safeMsg == IF error.reason # Undefined THEN error.reason
                        ELSE error.message
         IN  Response(IF includesInvalid(safeMsg) THEN 400 ELSE 500, "false", safeMsg)

(***************************************************************************)
(* SimpleWalletFactory.                                                    *)
(***************************************************************************)
FactoryOwners == Users \cup {ZeroAddress}

\* The address of the n-th contract the factory creates.
newWalletAddress(n) == "wallet#" \o ToString(n)

FCur == [walletOf |-> walletOf, created |-> created]

\* Mutant of createWalletRequire: a second wallet for an owner is allowed.
createWalletRequireNoExists(f, owner) ==
    IF owner = ZeroAddress THEN "owner=0" ELSE "ok"

\* The requires of createWallet.
createWalletRequire(f, owner) ==
    IF owner = ZeroAddress THEN "owner=0"
    ELSE IF f.walletOf[owner] # ZeroAddress THEN "exists"
    ELSE "ok"

\* wallet = address(new SimpleWallet(owner)); walletOf[owner] = wallet
createWalletEffect(f, owner) ==
    LET wallet == newWalletAddress(Len(f.created) + 1)
    IN  [walletOf |-> [f.walletOf EXCEPT ![owner] = wallet],
         created |-> Append(f.created, [owner |-> owner, wallet |-> wallet])]

\* A createWallet transaction as the chain executes it: all of it or, on a
\* failed require, nothing.
createWalletTx(f, owner) ==
    IF createWalletRequire(f, owner) = "ok" THEN createWalletEffect(f, owner) ELSE f

\* createWallet called by any account.
CreateWallet(owner) ==
    /\ Len(created) < MaxWallets
    /\ walletOf' = createWalletTx(FCur, owner).walletOf
    /\ created' = createWalletTx(FCur, owner).created
    /\ flast' = [op |-> "createWallet", owner |-> owner,
                 res |-> createWalletRequire(FCur, owner)]
    /\ UNCHANGED <<deployReq, relay, rarityVars, clientVars, nftSide, walletVars>>

(***************************************************************************)
(* POST /deploy-wallet.  A request is served in steps, one for each await  *)
(* of the handler; the steps of different requests interleave.             *)
(***************************************************************************)
DeployIds == 1 .. MaxDeploys

\* The request arrives: the owner is validated, and walletOf is asked for.
DeployWalletRequest(r, impl, owner) ==
    /\ deployReq[r].pc = "idle"
    /\ deployReq' =
          IF falsy(owner) \/ ~isAddress(owner)
          THEN [deployReq EXCEPT ![r].pc = "done", ![r].impl = impl, ![r].owner = owner,
                                 ![r].resp = Response(400, Undefined,
                                     "Valid 'owner' address is required.")]
          ELSE [deployReq EXCEPT ![r].pc = "check", ![r].impl = impl, ![r].owner = owner]
    /\ UNCHANGED <<walletOf, created, flast, relay, rarityVars, clientVars, nftSide, walletVars>>

\* existingWallet = await walletOf(owner): 409 when there is one.
DeployCheck(r) ==
    /\ deployReq[r].pc = "check"
    /\ LET existingWallet == walletOf[deployReq[r].owner]
       IN  deployReq' =
             IF existingWallet # ZeroAddress
             THEN [deployReq EXCEPT
                     ![r].pc = "done", ![r].existingWallet = existingWallet,
                     ![r].resp = [Response(409, "false",
                                     "A smart wallet for this account already exists.")
                                  EXCEPT !.walletAddress = existingWallet]]
             ELSE [deployReq EXCEPT ![r].pc = "send",
                                    ![r].existingWallet = existingWallet]
    /\ UNCHANGED <<walletOf, created, flast, relay, rarityVars, clientVars, nftSide, walletVars>>

\* tx = await createWallet(owner): the gas estimate runs the call on the
\* state of the moment, and a revert there is thrown with its reason; the
\* submission may fail for reasons of its own; else the transaction is out.
DeploySend(r, fault) ==
    /\ deployReq[r].pc = "send"
    /\ LET q == deployReq[r]
           reason == createWalletRequire(FCur, q.owner)
       IN  deployReq' =
             IF reason # "ok" \/ fault # "none"
             THEN [deployReq EXCEPT
                     ![r].pc = "done",
                     ![r].resp = handleTransactionError(q.impl, sendError(reason, fault))]
             ELSE [deployReq EXCEPT ![r].pc = "pending"]
    /\ UNCHANGED <<walletOf, created, flast, relay, rarityVars, clientVars, nftSide, walletVars>>

\* The chain executes the transaction of request r.
DeployMine(r) ==
    /\ deployReq[r].pc = "pending"
    /\ Len(created) < MaxWallets
    /\ LET owner == deployReq[r].owner
           reason == createWalletRequire(FCur, owner)
       IN  /\ walletOf' = createWalletTx(FCur, owner).walletOf
           /\ created' = createWalletTx(FCur, owner).created
           /\ flast' = [op |-> "createWallet", owner |-> owner, res |-> reason]
           /\ deployReq' = [deployReq EXCEPT ![r].pc = "mined", ![r].receipt = reason]
    /\ UNCHANGED <<relay, rarityVars, clientVars, nftSide, walletVars>>

\* await tx.wait(): it throws when the transaction reverted; else walletOf
\* is asked for again.
DeployWait(r) ==
    /\ deployReq[r].pc = "mined"
    /\ deployReq' =
          IF deployReq[r].receipt = "ok"
          THEN [deployReq EXCEPT ![r].pc = "read"]
          ELSE [deployReq EXCEPT
                  ![r].pc = "done",
                  ![r].resp = handleTransactionError(deployReq[r].impl, waitError)]
    /\ UNCHANGED <<walletOf, created, flast, relay, rarityVars, clientVars, nftSide, walletVars>>

\* smartWalletAddress = await walletOf(owner), and the 200 answer.
DeployRead(r) ==
    /\ deployReq[r].pc = "read"
    /\ deployReq' =
          [deployReq EXCEPT
             ![r].pc = "done",
             ![r].resp = [Response(200, "true", Undefined)
                          EXCEPT !.walletAddress = walletOf[deployReq[r].owner]]]
    /\ UNCHANGED <<walletOf, created, flast, relay, rarityVars, clientVars, nftSide, walletVars>>

(***************************************************************************)
(* POST /relay.  One request is served at a time: the body is validated,   *)
(* the meta-transaction is handed to the wallet named in the body, and the *)
(* answer waits for the receipt.                                           *)
(***************************************************************************)
\* ethers.isBytesLike: text that is hex of whole bytes.
isBytesLike(x) == x \in Datas \cup {"0xsignature"}

\* ethers.toBigInt: the number a value stands for, when it stands for one.
parsesBigInt(value) == value \in {"0", "1"}
toBigInt(value) == IF value = "1" THEN 1 ELSE 0

\* The signatures a body may carry: those of a signer over its own
\* meta-transaction at nonce 0 for this wallet, no signature at all, and
\* hex of an odd number of digits.  signatureText is the text one arrives as.
RelaySignatures ==
    {Sign(k, hashTypedDataV4(ThisWallet, structHash(k, 0, to, v, "d1"))) :
        k \in Signers, to \in Targets, v \in Values}
BadSignatures == {[key |-> k, digest |-> <<>>] : k \in {Undefined, "0x1"}}
signatureText(s) == IF s \in RelaySignatures THEN "0xsignature" ELSE s.key

\* A body: each field absent, text of the wrong kind, or a value of the
\* right kind; at most MaxDefects fields of one body are not of the right kind.
RelayBodies ==
    LET Defects(body) ==
          {f \in {"from", "to", "smartWalletAddress", "value", "data", "signature"} :
              IF f = "signature" THEN body[f] \notin RelaySignatures
              ELSE body[f] \in {Undefined, "nothex", "abc", "0x1"}}
    IN  {body \in [from : Signers \cup {Undefined, "nothex"},
                   to : Targets \cup {Undefined, "nothex"},
                   smartWalletAddress : {ThisWallet, Undefined, "nothex"},
                   value : {Undefined, "abc", "0", "1"},
                   data : {"d1", Undefined, "0x1"},
                   signature : RelaySignatures \cup BadSignatures] :
            Cardinality(Defects(body)) <= MaxDefects}

\* The validation of the body, in the order of the code: the message of the
\* first test that fails, or "ok".
relayValidate(body) ==
    IF falsy(body.from) \/ ~isAddress(body.from)
    THEN "Valid 'from' address is required."
    ELSE IF falsy(body.to) \/ ~isAddress(body.to)
    THEN "Valid 'to' address is required."
    ELSE IF falsy(body.smartWalletAddress) \/ ~isAddress(body.smartWalletAddress)
    THEN "Valid 'smartWalletAddress' is required."
    ELSE IF body.value = Undefined
    THEN "'value' is required."
    ELSE IF falsy(body.data) \/ ~isBytesLike(body.data)
    THEN "Valid 'data' (bytes hex string) is required."
    ELSE IF falsy(signatureText(body.signature))
            \/ ~isBytesLike(signatureText(body.signature))
    THEN "Valid 'signature' (bytes hex string) is required."
    ELSE "ok"

IdleRelay ==
    [pc |-> "idle", impl |-> "server", body |-> Undefined, submitted |-> FALSE,
     receipt |-> Undefined, resp |-> NoResponse]

\* executeMetaTransaction as one transaction on the wallet: the requires,
\* the nonce, the dispatched call (dispatchOk: whether it succeeds).
executeMetaTransactionOutcome(w, body, dispatchOk) ==
    LET reason == executeMetaTransactionRequire(w, body.from, body.to,
                      toBigInt(body.value), body.data, body.signature)
    IN  IF reason # "ok" THEN reason
        ELSE IF toBigInt(body.value) > w.wbalance \/ ~dispatchOk
        THEN "Meta-transaction call failed"
        ELSE "ok"

\* The request arrives: validation, then the arguments of the call are made
\* (toBigInt throws on a value that is no number).
RelayRequest(impl, body) ==
    /\ relay.pc \in {"idle", "done"}
    /\ relay' =
          LET q == [IdleRelay EXCEPT !.impl = impl, !.body = body]
          IN  IF relayValidate(body) # "ok"
              THEN [q EXCEPT !.pc = "done",
                             !.resp = Response(400, Undefined, relayValidate(body))]
              ELSE IF ~parsesBigInt(body.value)
              THEN [q EXCEPT !.pc = "done",
                             !.resp = handleTransactionError(impl,
                                         Err("INVALID_ARGUMENT", Undefined,
                                             "invalid BigNumberish string"))]
              ELSE [q EXCEPT !.pc = "submit"]
    /\ UNCHANGED <<factoryVars, rarityVars, clientVars, nftSide, walletVars>>

\* tx = await executeMetaTransaction(...): the gas estimate runs the call
\* on the state of the moment and throws its revert reason; the submission
\* may fail for reasons of its own; else the transaction is out.
RelaySubmit(dispatchOk, fault) ==
    /\ relay.pc = "submit"
    /\ LET reason == executeMetaTransactionOutcome(WCur, relay.body, dispatchOk)
       IN  relay' =
             IF reason # "ok" \/ fault # "none"
             THEN [relay EXCEPT
                     !.pc = "done",
                     !.resp = handleTransactionError(relay.impl, sendError(reason, fault))]
             ELSE [relay EXCEPT !.pc = "pending", !.submitted = TRUE]
    /\ UNCHANGED <<factoryVars, rarityVars, clientVars, nftSide, walletVars>>

\* The chain executes the transaction.
RelayMine(dispatchOk) ==
    /\ relay.pc = "pending"
    /\ wstack = <<>>
    /\ LET body == relay.body
           reason == executeMetaTransactionOutcome(WCur, body, dispatchOk)
           tx == MetaTx(body.from, body.to, toBigInt(body.value), body.data,
                        body.signature)
           w1 == forwardValue(incrementNonce(WCur, body.from), toBigInt(body.value))
       IN  /\ IF reason = "ok"
              THEN WInstall([w1 EXCEPT
                      !.executedOk = @ \cup {[tx |-> tx, k |-> nonces[body.from]]},
                      !.execCount[body.from] = @ + 1])
              ELSE UNCHANGED <<nonces, isOwner, walletOwner, wbalance, executedOk,
                               execCount>>
           /\ wlast' = [op |-> "executeMetaTransaction", from |-> relay.body.from,
                        k |-> nonces[relay.body.from],
                        v |-> toBigInt(relay.body.value), res |-> reason]
           /\ relay' = [relay EXCEPT !.pc = "mined", !.receipt = reason]
    /\ UNCHANGED <<wstack, factoryVars, rarityVars, clientVars, nftSide>>

\* await tx.wait(), and the answer: the hash after a receipt of success, the
\* error handler after a reverted one.
RelayWait ==
    /\ relay.pc = "mined"
    /\ relay' =
          IF relay.receipt = "ok"
          THEN [relay EXCEPT !.pc = "done",
                             !.resp = [Response(200, "true", Undefined)
                                       EXCEPT !.txHash = "0xtxhash"]]
          ELSE [relay EXCEPT !.pc = "done",
                             !.resp = handleTransactionError(relay.impl, waitError)]
    /\ UNCHANGED <<factoryVars, rarityVars, clientVars, nftSide, walletVars>>

(***************************************************************************)
(* The frontend's API client.  axios.get ends in a response ("ok"), in an  *)
(* error that carries a 4xx or a 5xx response, or in an error without      *)
(* response ("network").  A promise is known by how it settles:            *)
(* "fulfilled", or the error it is rejected with.                          *)
(***************************************************************************)
\* throttledAxiosGet of an Etherscan url, awaited: requestPromise is
\* etherscanApiQueue.then(wait the interval).then(axios.get), whose
\* callbacks run only when the queue is fulfilled; a rejected queue passes
\* its error on and no request is made.  outcome is how axios.get ends if it
\* is called.  The answer: how requestPromise settles, and whether axios.get
\* was called.
throttledAxiosGet(queue, outcome) ==
    IF queue = "fulfilled"
    THEN [settled |-> IF outcome = "ok" THEN "fulfilled" ELSE outcome, called |-> TRUE]
    ELSE [settled |-> queue, called |-> FALSE]

\* axiosWithRetries(url) is called: the loop starts at attempt 1.
AxiosWithRetries(throttled) ==
    /\ fetch.pc \in {"idle", "done"}
    /\ nFetches < MaxFetches
    /\ nFetches' = nFetches + 1
    /\ fetch' = [pc |-> "get", throttled |-> throttled, attempt |-> 1, sent |-> 0,
                 lastError |-> "none", result |-> "none"]
    /\ UNCHANGED <<etherscanApiQueue, form, rarityVars, factoryVars, relay, nftSide, walletVars>>

\* One turn of the loop: await throttledAxiosGet(url), and the catch.
AxiosAttempt(outcome) ==
    /\ fetch.pc = "get"
    /\ LET p == IF fetch.throttled THEN throttledAxiosGet(etherscanApiQueue, outcome)
                 ELSE [settled |-> IF outcome = "ok" THEN "fulfilled" ELSE outcome,
                       called |-> TRUE]
           q == [fetch EXCEPT !.sent = @ + (IF p.called THEN 1 ELSE 0)]
       IN  /\ etherscanApiQueue' = IF fetch.throttled THEN p.settled
                                   ELSE etherscanApiQueue
           /\ fetch' =
                 IF p.settled = "fulfilled"
                 THEN [q EXCEPT !.pc = "done", !.result = "response"]
                 ELSE IF p.settled = "4xx"
                 THEN [q EXCEPT !.pc = "done", !.lastError = "4xx", !.result = "thrown"]
                 ELSE IF fetch.attempt < retries
                 THEN [q EXCEPT !.pc = "delay", !.lastError = p.settled]
                 ELSE [q EXCEPT !.pc = "done", !.lastError = p.settled,
                                !.result = "thrown"]
    /\ UNCHANGED <<nFetches, form, rarityVars, factoryVars, relay, nftSide, walletVars>>

\* await delay(delayMs) is over: the next attempt.
RetryDelay ==
    /\ fetch.pc = "delay"
    /\ fetch' = [fetch EXCEPT !.pc = "get", !.attempt = @ + 1]
    /\ UNCHANGED <<etherscanApiQueue, nFetches, form, rarityVars, factoryVars, relay,
                   nftSide, walletVars>>

\* The wallet after its constructor.
InitWallet ==
    /\ nonces = [s \in Signers |-> 0]
    /\ isOwner = [s \in Signers |-> s = WalletOwner]
    /\ walletOwner = WalletOwner
    /\ wbalance = WalletFunds
    /\ executedOk = {}
    /\ execCount = [s \in Signers |-> 0]
    /\ wstack = <<>>
    /\ wlast = [op |-> "none"]

(***************************************************************************)
(* The contract after its constructor, at the first block.                 *)
(***************************************************************************)
InitContract(addresses) ==
    /\ whitelist = addresses
    /\ saleState = "Closed"
    /\ totalMinted = 0
    /\ tokenRarity = [id \in TokenIds |-> "Common"]
    /\ airdropCommits = [a \in Users |-> NoCommit]
    /\ publicCommits = [a \in Users |-> NoCommit]
    /\ publicEscrow = [a \in Users |-> 0]
    /\ claimedBitmap = [bucket \in {i \div 256 : i \in Indices} |-> 0]
    /\ claimedMap = [i \in Indices |-> FALSE]
    /\ useBitmapForAirdrop = FALSE
    /\ tokenMatrix = [slot \in TokenIds |-> 0]
    /\ withdrawBalance = [c \in Contributors |-> 0]
    /\ owners = [id \in TokenIds |-> ZeroAddress]
    /\ status = "NOT_ENTERED"
    /\ balance = 0
    /\ mintLog = <<>>
    /\ revealLog = [i \in Indices |-> 0]
    /\ received = 0
    /\ paidOut = [c \in Contributors |-> 0]
    /\ credited = [c \in Contributors |-> 0]
    /\ sent = [a \in Accounts |-> 0]
    /\ blockNumber = 1
    /\ frame = NoFrame
    /\ last = NoLast
    /\ nCommits = 0
    /\ nPayments = 0
    /\ nDistributes = 0
    /\ InitWallet
    /\ sampleRoll = 0
    /\ tierCount = [t \in Tiers |-> 0]
    /\ walletOf = [o \in FactoryOwners |-> ZeroAddress]
    /\ created = <<>>
    /\ flast = [op |-> "none", owner |-> ZeroAddress, res |-> "ok"]
    /\ deployReq = [r \in DeployIds |->
                      [pc |-> "idle", impl |-> "server", owner |-> Undefined,
                       existingWallet |-> Undefined, receipt |-> Undefined,
                       resp |-> NoResponse]]
    /\ relay = IdleRelay
    /\ etherscanApiQueue = "fulfilled"
    /\ fetch = [pc |-> "idle", throttled |-> FALSE, attempt |-> 0, sent |-> 0,
                lastError |-> "none", result |-> "none"]
    /\ nFetches = 0
    /\ form = [account |-> Undefined, smartWalletAddress |-> Undefined,
               commitDetails |-> <<>>]

Init == InitContract(AllowList)

Next ==
    \/ \E a \in Users, h \in CommitHashes : CommitAirdrop(a, h)
    \/ \E a \in Users, h \in CommitHashes : CommitPublic(a, h, MINT_PRICE)
    \/ \E a \in Users, i \in Indices, s \in Secrets, p \in Proofs,
          r \in TokenIds, roll \in RollSamples : RevealAirdrop(a, i, s, p, r, roll)
    \/ \E a \in Users, to \in Recipients, s \in Secrets, r \in TokenIds,
          roll \in RollSamples : MintFor(a, to, s, r, roll)
    \/ \E a \in Users : CancelAirdropCommit(a)
    \/ \E a \in Users : OwnerCancelExpiredAirdrop(a)
    \/ \E a \in Users : CancelPublicCommit(a)
    \/ \E a \in Users : OwnerCancelExpiredPublic(a)
    \/ \E st \in {"Closed", "Presale", "PublicSale", "SoldOut"} : SetSaleState(st)
    \/ \E b \in BOOLEAN : SetUseBitmap(b)
    \/ \E ok \in BOOLEAN : CallReturn(ok)
    \/ AdvanceBlock

Spec == Init /\ [][Next]_vars

(***************************************************************************)
(* The contributor payouts: payments into the contract (plain transfers    *)
(* and public commits), distributeFunds, withdraw, and the refunds that    *)
(* draw on the same balance.                                               *)
(***************************************************************************)
NextSplit ==
    \/ \E v \in {MINT_PRICE, MaxPayment} : Receive(v)
    \/ DistributeFunds
    \/ \E c \in Contributors : Withdraw(c)
    \/ SetSaleState("PublicSale")
    \/ \E a \in Users, h \in CommitHashes : CommitPublic(a, h, MINT_PRICE)
    \/ \E a \in Users : CancelPublicCommit(a)
    \/ \E ok \in BOOLEAN : CallReturn(ok)

SpecSplit == Init /\ [][NextSplit]_vars

(***************************************************************************)
(* The calls that can fail after they have changed state: those whose      *)
(* external call goes to a contract account (the user bob, the contributor *)
(* c2), with what it takes to get there.                                   *)
(***************************************************************************)
ContractUsers == {a \in Users : IsContract(a)}

NextRevert ==
    \/ \E st \in {"Presale", "PublicSale"} : SetSaleState(st)
    \/ \E a \in ContractUsers, h \in CommitHashes : CommitAirdrop(a, h)
    \/ \E a \in ContractUsers, h \in CommitHashes : CommitPublic(a, h, MINT_PRICE)
    \/ \E a \in ContractUsers, i \in Indices, s \in Secrets, p \in Proofs,
          r \in TokenIds, roll \in RollSamples : RevealAirdrop(a, i, s, p, r, roll)
    \/ \E a \in ContractUsers, to \in ContractUsers, s \in Secrets, r \in TokenIds,
          roll \in RollSamples : MintFor(a, to, s, r, roll)
    \/ \E a \in ContractUsers : CancelPublicCommit(a)
    \/ \E a \in ContractUsers : OwnerCancelExpiredPublic(a)
    \/ Receive(MaxPayment)
    \/ DistributeFunds
    \/ \E c \in {p \in Contributors : IsContract(p)} : Withdraw(c)
    \/ \E ok \in BOOLEAN : CallReturn(ok)
    \/ AdvanceBlock

SpecRevert == Init /\ [][NextRevert]_vars

(***************************************************************************)
(* The way to a sold-out contract and past it: commits with correct        *)
(* hashes, one more than the supply, their reveals, and the owner setting  *)
(* the sale state, also after the last mint has set it to SoldOut.         *)
(***************************************************************************)
RevealedHashes == {SecretHash(s) : s \in 1 .. NumCommitSecrets}

NextSoldOut ==
    \/ \E st \in {"Presale", "PublicSale"} : SetSaleState(st)
    \/ \E a \in Users, h \in RevealedHashes : CommitAirdropUpTo(a, h, MAX_SUPPLY + 1)
    \/ \E a \in Users, h \in RevealedHashes :
          CommitPublicUpTo(a, h, MINT_PRICE, MAX_SUPPLY + 1)
    \/ \E a \in Users, i \in Indices, s \in Secrets, p \in Proofs,
          r \in TokenIds, roll \in RollSamples : RevealAirdrop(a, i, s, p, r, roll)
    \/ \E a \in Users, s \in Secrets, r \in TokenIds,
          roll \in RollSamples : MintFor(a, a, s, r, roll)
    \/ CallReturn(TRUE)
    \/ AdvanceBlock

SpecSoldOut == Init /\ [][NextSoldOut]_vars

(***************************************************************************)
(* The presale over every allowlist a deployment may be given: the arrays  *)
(* of up to MaxIndex + 1 addresses (one, two and an odd number of leaves;  *)
(* the deployment script's fallback user is the deployer, so an address    *)
(* may repeat), with both claimed-set modes.                               *)
(***************************************************************************)
WhiteLists == UNION {[1 .. n -> Users \cup {Owner}] : n \in 1 .. (MaxIndex + 1)}

InitAllowlist == \E w \in WhiteLists : InitContract(w)

NextAllowlist ==
    \/ SetSaleState("Presale")
    \/ \E b \in BOOLEAN : SetUseBitmap(b)
    \/ \E a \in Users, h \in RevealedHashes : CommitAirdrop(a, h)
    \/ \E a \in Users, i \in Indices, s \in Secrets, p \in Proofs,
          r \in TokenIds, roll \in RollSamples : RevealAirdrop(a, i, s, p, r, roll)
    \/ \E ok \in BOOLEAN : CallReturn(ok)
    \/ AdvanceBlock

SpecAllowlist == InitAllowlist /\ [][NextAllowlist]_vars

(***************************************************************************)
(* The tier function over the whole range of the roll: the rolls 0, 1, ... *)
(* RollModulus - 1 are put through it one after the other and tallied.     *)
(***************************************************************************)
RollNext ==
    /\ sampleRoll < RollModulus
    /\ tierCount' = [tierCount EXCEPT ![RarityOf(sampleRoll)] = @ + 1]
    /\ sampleRoll' = sampleRoll + 1
    /\ UNCHANGED <<nftSide, walletVars, factoryVars, relay, clientVars>>

NextRarity == RollNext

SpecRarity == Init /\ [][NextRarity]_vars

(***************************************************************************)
(* The wallet: relayed meta-transactions and the owner's signer changes.   *)
(***************************************************************************)
NextWallet ==
    \/ \E from \in Signers, to \in Targets, v \in Values, data \in Datas,
          sig \in Signatures : ExecuteMetaTransaction(from, to, v, data, sig)
    \/ \E ok \in BOOLEAN : DispatchReturn(ok)
    \/ \E a \in Signers : AddOwner(a)
    \/ \E a \in Signers : RemoveOwner(a)
    \/ \E a \in Signers : TransferOwnership(a)

SpecWallet == Init /\ [][NextWallet]_vars

(***************************************************************************)
(* The factory under concurrent /deploy-wallet requests and direct calls.  *)
(***************************************************************************)
NextFactory ==
    \/ \E o \in FactoryOwners : CreateWallet(o)
    \/ \E r \in DeployIds, impl \in {"server", "api"},
          o \in FactoryOwners \cup {Undefined, "nothex"} :
          DeployWalletRequest(r, impl, o)
    \/ \E r \in DeployIds : DeployCheck(r)
    \/ \E r \in DeployIds, fault \in {"none", "INSUFFICIENT_FUNDS", "NETWORK_ERROR"} :
          DeploySend(r, fault)
    \/ \E r \in DeployIds : DeployMine(r)
    \/ \E r \in DeployIds : DeployWait(r)
    \/ \E r \in DeployIds : DeployRead(r)

SpecFactory == Init /\ [][NextFactory]_vars

(***************************************************************************)
(* The relayer serving /relay requests against the wallet.                 *)
(***************************************************************************)
NextRelay ==
    \/ \E impl \in {"server", "api"}, body \in RelayBodies : RelayRequest(impl, body)
    \/ \E ok \in BOOLEAN, fault \in {"none", "INSUFFICIENT_FUNDS", "NETWORK_ERROR"} :
          RelaySubmit(ok, fault)
    \/ \E ok \in BOOLEAN : RelayMine(ok)
    \/ RelayWait

SpecRelay == Init /\ [][NextRelay]_vars

(***************************************************************************)
(* The API client serving one axiosWithRetries call after the other.       *)
(***************************************************************************)
(***************************************************************************)
(* CommitRevealForm.  form holds the component's account and               *)
(* smartWalletAddress and its commitDetails state, <<>> while null.  The   *)
(* smart wallet of an account is an address of its own that commits with   *)
(* itself as msg.sender.                                                   *)
(***************************************************************************)
\* checkCommitStatus: the first commit found among the account's public
\* one, its smart wallet's public one and the account's airdrop one is
\* stored as commitDetails; resetState when there is none.
CheckCommitStatus(account, smartWalletAddress) ==
    /\ ~InCall
    /\ ~falsy(account)
    /\ LET pub == getCommit(publicCommits[account], publicEscrow[account], blockNumber)
           sw == IF falsy(smartWalletAddress) THEN getCommit(NoCommit, 0, blockNumber)
                 ELSE getCommit(publicCommits[smartWalletAddress],
                                publicEscrow[smartWalletAddress], blockNumber)
           ad == getCommit(airdropCommits[account], 0, blockNumber)
           details(g, committer, isAirdrop) ==
               <<[committer |-> committer, hash |-> g.hash, blockNumber |-> g.blockNumber,
                  earliestRevealBlock |-> g.earliestRevealBlock,
                  expiryBlock |-> g.expiryBlock, expired |-> g.expired,
                  isAirdrop |-> isAirdrop]>>
           found == IF pub.hash # ZeroHash THEN details(pub, account, FALSE)
                    ELSE IF ~falsy(smartWalletAddress) /\ sw.hash # ZeroHash
                         THEN details(sw, smartWalletAddress, FALSE)
                    ELSE IF ad.hash # ZeroHash THEN details(ad, account, TRUE)
                    ELSE <<>>
       IN  form' = [account |-> account, smartWalletAddress |-> smartWalletAddress,
                    commitDetails |-> found]
    /\ UNCHANGED <<etherscanApiQueue, fetch, nFetches, rarityVars, factoryVars, relay,
                   nftSide, walletVars>>

\* handleCancel: the cancel of the displayed phase, sent through the signer
\* of the connected account.
HandleCancel ==
    /\ ~falsy(form.account)
    /\ form.commitDetails # <<>>
    /\ IF form.commitDetails[1].isAirdrop
       THEN CancelAirdropCommit(form.account)
       ELSE CancelPublicCommit(form.account)

NextForm ==
    \/ \E a \in Users, h \in CommitHashes : CommitAirdrop(a, h)
    \/ \E a \in Users, h \in CommitHashes : CommitPublic(a, h, MINT_PRICE)
    \/ \E st \in {"Presale", "PublicSale"} : SetSaleState(st)
    \/ \E a \in Users : \E w \in (Users \ {a}) \cup {Undefined} : CheckCommitStatus(a, w)
    \/ HandleCancel
    \/ \E ok \in BOOLEAN : CallReturn(ok)
    \/ AdvanceBlock

SpecForm == Init /\ [][NextForm]_vars

NextApi ==
    \/ \E throttled \in BOOLEAN : AxiosWithRetries(throttled)
    \/ \E outcome \in {"ok", "4xx", "5xx", "network"} : AxiosAttempt(outcome)
    \/ RetryDelay

SpecApi == Init /\ [][NextApi]_vars


(***************************************************************************)
(* Properties of the commit-reveal lifecycle (checked under Spec).         *)
(***************************************************************************)
InWindow(c) ==
    /\ blockNumber >= c.blockNumber + REVEAL_DELAY
    /\ blockNumber <= c.blockNumber + REVEAL_DELAY + REVEAL_WINDOW

RevealOps == {"revealAirdrop", "mintFor"}

\* The outcome now of the reveal call that `last` records, made again.
SecondReveal ==
    IF last.op = "revealAirdrop"
    THEN revealAirdropCheck(last.who, last.index, last.secret, last.proof)
    ELSE mintForCheck(last.who, last.to, last.secret)

\* The conditions the round-trip claim lists, for an allowlist reveal of
\* secret s by a with index i and proof p, and for a public reveal of s by a.
AirdropRevealable(a, i, s, p) ==
    /\ saleState = "Presale"
    /\ airdropCommits[a].hash = SecretHash(s)
    /\ InWindow(airdropCommits[a])
    /\ totalMinted < MAX_SUPPLY
    /\ MerkleVerify(p, merkleRoot, LeafHash(i, a))
    /\ ~isClaimed(Cur, i)

PublicRevealable(a, s) ==
    /\ saleState = "PublicSale"
    /\ publicCommits[a].hash = SecretHash(s)
    /\ InWindow(publicCommits[a])
    /\ totalMinted < MAX_SUPPLY

\* C1 (as stated): after commit(hash(s)) a reveal of s inside the window, with
\* the phase active, supply left and (allowlist) a valid unclaimed index and
\* proof, succeeds; and a second reveal with the same arguments right after a
\* successful one fails with "No commit".  Stated of the reveal call that has
\* just run past its checks (so under the listed conditions): it succeeded,
\* and made again it fails with "No commit".
C1_RoundTrip ==
    (~InCall /\ last.op \in RevealOps) =>
       /\ last.res = "ok"
       /\ SecondReveal = "No commit"

\* C1 (amended): under the listed conditions an allowlist reveal passes every
\* check, and a public reveal passes them exactly when the recipient is not the
\* zero address and the committer's escrow equals MINT_PRICE (else it fails
\* with "recipient=0", "Escrow mismatch"); a reveal that passed the checks
\* either mints or, when the recipient is a contract that rejects the token,
\* reverts and leaves the commitment live; a second reveal with the same
\* arguments right after a successful one fails with "No commit", or with the
\* sale-not-active message when the first one minted the last token.
C1_RoundTripAmended ==
    /\ ~InCall =>
         \A a \in Users, s \in Secrets :
            /\ \A i \in Indices, p \in Proofs :
                 AirdropRevealable(a, i, s, p) => revealAirdropCheck(a, i, s, p) = "ok"
            /\ \A to \in Recipients :
                 PublicRevealable(a, s) =>
                    mintForCheck(a, to, s) =
                       IF to = ZeroAddress THEN "recipient=0"
                       ELSE IF publicEscrow[a] # MINT_PRICE THEN "Escrow mismatch"
                       ELSE "ok"
    /\ (~InCall /\ last.op \in RevealOps) =>
         /\ last.res \in {"ok", "ERC721InvalidReceiver"}
         /\ last.res = "ERC721InvalidReceiver" =>
               /\ IsContract(last.to)
               /\ LET c == IF last.op = "revealAirdrop" THEN airdropCommits[last.who]
                           ELSE publicCommits[last.who]
                  IN  c = [hash |-> SecretHash(last.secret), blockNumber |-> last.cblk]
         /\ last.res = "ok" =>
               SecondReveal =
                  IF totalMinted < MAX_SUPPLY THEN "No commit"
                  ELSE IF last.op = "revealAirdrop" THEN "Presale is not active"
                  ELSE "Public sale is not active"

\* C1 witness: a reveal has just succeeded and minted the last token.
C1_Witness ==
    /\ last.op = "revealAirdrop"
    /\ last.res = "ok"
    /\ saleState = "SoldOut"
    /\ airdropCommits[last.who] = NoCommit

\* C2: for a commitment stored at block c, in the active phase, a reveal fails
\* with "Reveal too early" before c + REVEAL_DELAY (so at c + REVEAL_DELAY - 1)
\* and with "Commit expired" after c + REVEAL_DELAY + REVEAL_WINDOW (so at + 1);
\* at c + REVEAL_DELAY, at c + REVEAL_DELAY + REVEAL_WINDOW and between them the
\* timing checks pass, and the reveal with the correct secret passes every
\* check when nothing but timing is in question; no reveal succeeds outside
\* the window.  For revealAirdrop and for mintFor / revealPublicFor.
C2_ExpiryBoundary ==
    /\ ~InCall =>
         \A a \in Users, s \in Secrets :
            /\ (saleState = "Presale" /\ existsCommit(airdropCommits[a])) =>
                 LET c == airdropCommits[a].blockNumber IN
                 \A i \in Indices, p \in Proofs :
                    LET r == revealAirdropCheck(a, i, s, p) IN
                    /\ blockNumber < c + REVEAL_DELAY => r = "Reveal too early"
                    /\ blockNumber > c + REVEAL_DELAY + REVEAL_WINDOW => r = "Commit expired"
                    /\ InWindow(airdropCommits[a]) =>
                          /\ r \notin {"Reveal too early", "Commit expired"}
                          /\ AirdropRevealable(a, i, s, p) => r = "ok"
            /\ (saleState = "PublicSale" /\ existsCommit(publicCommits[a])) =>
                 LET c == publicCommits[a].blockNumber IN
                 \A to \in Users :
                    LET r == mintForCheck(a, to, s) IN
                    /\ blockNumber < c + REVEAL_DELAY => r = "Reveal too early"
                    /\ blockNumber > c + REVEAL_DELAY + REVEAL_WINDOW => r = "Commit expired"
                    /\ InWindow(publicCommits[a]) =>
                          /\ r \notin {"Reveal too early", "Commit expired"}
                          /\ (PublicRevealable(a, s) /\ publicEscrow[a] = MINT_PRICE)
                                => r = "ok"
    /\ (last.op \in RevealOps /\ last.res = "ok") =>
         /\ last.blk >= last.cblk + REVEAL_DELAY
         /\ last.blk <= last.cblk + REVEAL_DELAY + REVEAL_WINDOW

\* C2 witness: a reveal succeeded at the last block of its window, and another
\* commitment is one block short of its earliest reveal.
C2_Witness ==
    /\ last.op \in RevealOps
    /\ last.res = "ok"
    /\ last.blk = last.cblk + REVEAL_DELAY + REVEAL_WINDOW
    /\ \E a \in Users :
          /\ existsCommit(publicCommits[a])
          /\ blockNumber = publicCommits[a].blockNumber + REVEAL_DELAY - 1

\* C3 (as stated): for every allowlist index i, at most one revealAirdrop call
\* that names i ever succeeds.
C3_NoDoubleClaim == \A i \in Indices : revealLog[i] <= 1

\* C4: totalMinted equals the number of tokens that exist, the minted ids are
\* pairwise distinct, each lies in [0, MAX_SUPPLY), and totalMinted <= MAX_SUPPLY.
C4_SupplyConservation ==
    /\ totalMinted = Cardinality({id \in TokenIds : owners[id] # ZeroAddress})
    /\ totalMinted = Len(mintLog)
    /\ \A j, k \in 1 .. Len(mintLog) : j # k => mintLog[j] # mintLog[k]
    /\ \A j \in 1 .. Len(mintLog) :
          /\ mintLog[j] >= 0
          /\ mintLog[j] < MAX_SUPPLY
          /\ owners[mintLog[j]] # ZeroAddress
    /\ totalMinted <= MAX_SUPPLY

\* C4 witness: the whole supply has been minted.
C4_Witness == totalMinted = MAX_SUPPLY /\ Len(mintLog) = MAX_SUPPLY

\* C5 (as stated): for every address a, publicEscrow[a] > 0 iff a live public
\* commitment exists for a, and then publicEscrow[a] = MINT_PRICE.
C5_EscrowInvariant ==
    \A a \in Users :
       /\ publicEscrow[a] > 0 <=> existsCommit(publicCommits[a])
       /\ existsCommit(publicCommits[a]) => publicEscrow[a] = MINT_PRICE

\* C10: while the refund call of cancelPublicCommit or ownerCancelExpiredPublic
\* is under way, the committer's commitment and escrow are already deleted and
\* the value sent is exactly what was escrowed, so nothing the callee calls
\* back can be refunded again or revealed: every such call fails, by the
\* re-entrancy guard and, the guard aside, for want of a commitment.
C10_RefundReentrancy ==
    /\ frame.kind = "refund" =>
         LET u == frame.callee IN
         /\ publicCommits[u] = NoCommit
         /\ publicEscrow[u] = 0
         /\ frame.op.amt = frame.snap.publicEscrow[u]
         /\ balance = frame.snap.balance - frame.op.amt
         /\ cancelPublicCommitCheck(u) # "ok"
         /\ cancelPublicCommitRequire(u) = "No commit"
         /\ ownerCancelExpiredPublicRequire(u, u) # "ok"
         /\ \A to \in Recipients, s \in Secrets :
               /\ mintForCheck(u, to, s) # "ok"
               /\ mintForImplRequire(u, to, s) \in
                     {"Public sale is not active", "recipient=0", "No commit"}
    /\ (last.op \in {"cancelPublicCommit", "ownerCancelExpiredPublic"} /\ last.res = "ok") =>
         /\ publicCommits[last.to] = NoCommit
         /\ publicEscrow[last.to] = 0

\* C10 witness: the refund of a cancelled commitment is being delivered to a
\* contract account.
C10_Witness ==
    /\ frame.kind = "refund"
    /\ frame.op.amt = MINT_PRICE
    /\ existsCommit(frame.snap.publicCommits[frame.callee])


\* C11: while the recipient's onERC721Received runs inside the mint of a
\* reveal, the commitment revealed (and, for the public phase, its escrow) is
\* already deleted and exactly one token has been minted from it; every
\* reveal the callee could make back into the contract fails, by the
\* re-entrancy guard and, the guard aside, a reveal of the same committer
\* fails with "No commit".
C11_NoReentrantDoubleReveal ==
    frame.kind = "mint" =>
       LET who == frame.op.who IN
       /\ totalMinted = frame.snap.totalMinted + 1
       /\ Len(mintLog) = Len(frame.snap.mintLog) + 1
       /\ frame.op.op = "revealAirdrop" =>
             /\ existsCommit(frame.snap.airdropCommits[who])
             /\ airdropCommits[who] = NoCommit
             /\ \A i \in Indices, s \in Secrets, p \in Proofs :
                   revealAirdropRequire(who, i, s, p) = "No commit"
       /\ frame.op.op = "mintFor" =>
             /\ existsCommit(frame.snap.publicCommits[who])
             /\ publicCommits[who] = NoCommit
             /\ publicEscrow[who] = 0
             /\ \A to \in Users, s \in Secrets :
                   mintForImplRequire(who, to, s) = "No commit"
       /\ \A a \in Users, i \in Indices, s \in Secrets, p \in Proofs :
             revealAirdropCheck(a, i, s, p) = "ReentrancyGuardReentrantCall"
       /\ \A a \in Users, to \in Recipients, s \in Secrets :
             mintForCheck(a, to, s) = "ReentrancyGuardReentrantCall"

\* C11 witness: the callback of a public reveal runs in a contract that is not
\* the committer, while that contract holds a live commitment of its own.
C11_Witness ==
    /\ frame.kind = "mint"
    /\ frame.op.op = "mintFor"
    /\ frame.callee # frame.op.who
    /\ existsCommit(publicCommits[frame.callee])
    /\ InWindow(publicCommits[frame.callee])

\* C12 (checked under SpecRevert): a call that fails after it has changed
\* state leaves everything as it was before the call: the state kept when the
\* external call starts is the state the call was made in, and when the call
\* fails that state is back, commitments, escrows, claimed set, id pool,
\* totalMinted, sale state and credited balances included; in particular after
\* a revealAirdrop with a valid proof and index whose mint failed, the index
\* is not claimed and the commitment is as it was.
C12_AllOrNothing ==
    /\ [][(~InCall /\ InCall') => frame'.snap = Cur]_vars
    /\ [][(InCall /\ ~InCall' /\ last'.res # "ok") =>
             /\ Cur' = frame.snap
             /\ last'.op = frame.op.op]_vars
    /\ []((~InCall /\ last.op = "revealAirdrop" /\ last.res # "ok") =>
             /\ MerkleVerify(last.proof, merkleRoot, LeafHash(last.index, last.who))
             /\ ~isClaimed(Cur, last.index)
             /\ airdropCommits[last.who] =
                   [hash |-> SecretHash(last.secret), blockNumber |-> last.cblk]
             /\ revealAirdropCheck(last.who, last.index, last.secret, last.proof) = "ok")

\* C12 witness: a revealAirdrop with a valid proof has failed in its mint, after
\* an earlier mint and with credited balances standing.
C12_Witness ==
    /\ ~InCall
    /\ last.op = "revealAirdrop"
    /\ last.res = "ERC721InvalidReceiver"
    /\ existsCommit(airdropCommits[last.who])
    /\ nDistributes > 0

\* msg.value of a commitPublic call: too little, the price, too much.
PaymentSamples == {0, MINT_PRICE, 2 * MINT_PRICE}

\* The call a step belongs to: the one whose external call the step starts,
\* else the one the step ends.
StepCall == IF InCall' THEN frame'.op ELSE last'

\* C13: a commit by an address with a live commitment in that phase fails
\* with "Already committed" (the phase being active; in another sale state the
\* sale-state require fails first), and a commitPublic with
\* msg.value # MINT_PRICE fails with "Incorrect payment" (the sale being active
\* and no commitment stored; otherwise an earlier require fails first); no
\* failing commit stores anything, so a live commitment's hash and blockNumber
\* (and the escrow beside a public one) change in no step but the one of its
\* reveal or cancel, which deletes it.
C13_SingleLiveCommitment ==
    /\ [](~InCall =>
            \A a \in Users :
               /\ existsCommit(airdropCommits[a]) =>
                     commitAirdropCheck(a) =
                        IF saleState = "Presale" THEN "Already committed"
                        ELSE "Presale is not active"
               /\ \A v \in PaymentSamples :
                     /\ existsCommit(publicCommits[a]) =>
                           commitPublicCheck(a, v) =
                              IF saleState = "PublicSale" THEN "Already committed"
                              ELSE "Public sale is not active"
                     /\ v # MINT_PRICE =>
                           commitPublicCheck(a, v) =
                              IF saleState # "PublicSale" THEN "Public sale is not active"
                              ELSE IF publicCommits[a].hash # ZeroHash
                                   THEN "Already committed"
                              ELSE "Incorrect payment")
    /\ [][\A a \in Users :
            /\ existsCommit(airdropCommits[a]) =>
                  \/ airdropCommits'[a] = airdropCommits[a]
                  \/ /\ airdropCommits'[a] = NoCommit
                     /\ \/ StepCall.op \in {"revealAirdrop", "cancelAirdropCommit"}
                           /\ StepCall.who = a
                        \/ StepCall.op = "ownerCancelExpiredAirdrop" /\ StepCall.to = a
            /\ existsCommit(publicCommits[a]) =>
                  \/ /\ publicCommits'[a] = publicCommits[a]
                     /\ publicEscrow'[a] = publicEscrow[a]
                  \/ /\ publicCommits'[a] = NoCommit
                     /\ publicEscrow'[a] = 0
                     /\ \/ StepCall.op \in {"mintFor", "cancelPublicCommit"}
                           /\ StepCall.who = a
                        \/ StepCall.op = "ownerCancelExpiredPublic" /\ StepCall.to = a]_vars

\* C13 witness: an address holds a live public commitment of an earlier block
\* while the public sale is active, and a live allowlist commitment while the
\* presale is not.
C13_Witness ==
    /\ ~InCall
    /\ saleState = "PublicSale"
    /\ \E a \in Users :
          /\ existsCommit(publicCommits[a])
          /\ blockNumber > publicCommits[a].blockNumber
          /\ existsCommit(airdropCommits[a])

\* The calls past their requires that the state records: the one whose
\* external call is under way and the last one that ended.
RecordedCalls ==
    (IF InCall THEN {frame.op} ELSE {}) \cup (IF last.op # "none" THEN {last} ELSE {})

\* C14: outside Presale every commitAirdrop and revealAirdrop fails at its
\* first require, outside PublicSale every commitPublic, mintFor and
\* revealPublicFor does, whatever the arguments and the commitment held; and
\* every such call that got past its requires was made in its sale state.
C14_SalePhaseGate ==
    /\ ~InCall =>
         \A a \in Users, s \in Secrets :
            /\ saleState # "Presale" =>
                  /\ commitAirdropCheck(a) = "Presale is not active"
                  /\ \A i \in Indices, p \in Proofs :
                        revealAirdropCheck(a, i, s, p) = "Presale is not active"
            /\ saleState # "PublicSale" =>
                  /\ \A v \in PaymentSamples :
                        commitPublicCheck(a, v) = "Public sale is not active"
                  /\ \A to \in Recipients :
                        mintForCheck(a, to, s) = "Public sale is not active"
    /\ \A c \in RecordedCalls :
          /\ c.op \in {"commitAirdrop", "revealAirdrop"} => c.sale = "Presale"
          /\ c.op \in {"commitPublic", "mintFor"} => c.sale = "PublicSale"

\* C14 witness: the sale is closed while an address holds, inside their
\* windows, an allowlist and a public commitment that nothing else keeps from
\* being revealed.
C14_Witness ==
    /\ ~InCall
    /\ saleState = "Closed"
    /\ totalMinted < MAX_SUPPLY
    /\ \E a \in Users :
          /\ existsCommit(airdropCommits[a]) /\ InWindow(airdropCommits[a])
          /\ existsCommit(publicCommits[a]) /\ InWindow(publicCommits[a])
          /\ publicEscrow[a] = MINT_PRICE

OwnerCancelOps == {"ownerCancelExpiredAirdrop", "ownerCancelExpiredPublic"}

\* C15: ownerCancelExpiredAirdrop(u) / ownerCancelExpiredPublic(u) pass their
\* requires exactly when the caller is the owner, u has a live commitment and
\* the block is past commitBlock + REVEAL_DELAY + REVEAL_WINDOW; the call then
\* deletes u's commitment (and escrow), and the public one sends exactly the
\* escrowed amount, to u: the owner is never sent anything.
C15_OwnerForceCancel ==
    /\ ~InCall =>
         \A u \in Users, sender \in Users \cup {Owner} :
            /\ ownerCancelExpiredAirdropRequire(sender, u) = "ok" <=>
                  /\ sender = Owner
                  /\ existsCommit(airdropCommits[u])
                  /\ blockNumber > airdropCommits[u].blockNumber + REVEAL_DELAY + REVEAL_WINDOW
            /\ ownerCancelExpiredPublicRequire(sender, u) = "ok" <=>
                  /\ sender = Owner
                  /\ existsCommit(publicCommits[u])
                  /\ blockNumber > publicCommits[u].blockNumber + REVEAL_DELAY + REVEAL_WINDOW
    /\ \A c \in RecordedCalls :
          c.op \in OwnerCancelOps =>
             /\ c.who = Owner
             /\ c.blk > c.cblk + REVEAL_DELAY + REVEAL_WINDOW
             /\ (c.res = "ok" /\ c.op = "ownerCancelExpiredAirdrop") =>
                   airdropCommits[c.to] = NoCommit
             /\ (c.res = "ok" /\ c.op = "ownerCancelExpiredPublic") =>
                   /\ publicCommits[c.to] = NoCommit
                   /\ publicEscrow[c.to] = 0
                   /\ sent[c.to] >= c.amt
    /\ frame.kind = "refund" /\ frame.op.op = "ownerCancelExpiredPublic" =>
          /\ frame.callee = frame.op.to
          /\ existsCommit(frame.snap.publicCommits[frame.op.to])
          /\ frame.op.amt = frame.snap.publicEscrow[frame.op.to]
          /\ sent = [frame.snap.sent EXCEPT ![frame.op.to] = @ + frame.op.amt]
    /\ sent[Owner] = 0

\* C15 witness: the owner has force-cancelled an expired public commitment and
\* its escrow has gone to the committer.
C15_Witness ==
    /\ ~InCall
    /\ last.op = "ownerCancelExpiredPublic"
    /\ last.res = "ok"
    /\ last.amt = MINT_PRICE
    /\ sent[last.to] = MINT_PRICE
    /\ balance = 0

\* C16 (as stated; checked under SpecSplit): whenever an address has a live
\* commitment its own cancel passes every require, at any block and in any
\* sale state, and the refund of the public one can be made (it then only
\* takes the caller to accept it); after a successful cancel the commitment
\* is gone, the caller's escrow is 0 and the amount refunded is the escrow
\* from before the call.
C16_LenientCancel ==
    /\ ~InCall =>
         \A a \in Users :
            /\ existsCommit(airdropCommits[a]) => cancelAirdropCommitCheck(a) = "ok"
            /\ existsCommit(publicCommits[a]) =>
                  /\ cancelPublicCommitCheck(a) = "ok"
                  /\ balance >= publicEscrow[a]
    /\ (~InCall /\ last.op = "cancelPublicCommit" /\ last.res = "ok") =>
          /\ publicCommits[last.who] = NoCommit
          /\ publicEscrow[last.who] = 0
          /\ sent[last.who] >= last.amt

\* C17 (checked under SpecSoldOut): totalMinted never exceeds MAX_SUPPLY, and
\* whenever totalMinted = MAX_SUPPLY every revealAirdrop, mintFor and
\* revealPublicFor fails, in whatever sale state the owner has set; the one
\* that nothing else stops fails with "All tokens have been minted", the
\* require at the entry of _mintRandom, before any draw; a failing call
\* reverts, so commitment, escrow and claimed index stay.
C17_SoldOutRejection ==
    /\ totalMinted <= MAX_SUPPLY
    /\ Len(mintLog) <= MAX_SUPPLY
    /\ (~InCall /\ totalMinted = MAX_SUPPLY) =>
         \A a \in Users, s \in Secrets :
            /\ \A i \in Indices, p \in Proofs :
                  /\ revealAirdropCheck(a, i, s, p) # "ok"
                  /\ ( /\ saleState = "Presale"
                       /\ airdropCommits[a].hash = SecretHash(s)
                       /\ InWindow(airdropCommits[a])
                       /\ MerkleVerify(p, merkleRoot, LeafHash(i, a))
                       /\ ~isClaimed(Cur, i) )
                     => revealAirdropCheck(a, i, s, p) = "All tokens have been minted"
            /\ \A to \in Recipients :
                  /\ mintForCheck(a, to, s) # "ok"
                  /\ ( /\ saleState = "PublicSale"
                       /\ to # ZeroAddress
                       /\ publicCommits[a].hash = SecretHash(s)
                       /\ InWindow(publicCommits[a])
                       /\ publicEscrow[a] = MINT_PRICE )
                     => mintForCheck(a, to, s) = "All tokens have been minted"

\* C17 witness: the supply is minted, the owner has set the sale state back
\* to Presale, and an address holds in its window a commitment for an
\* unclaimed index of its own.
C17_Witness ==
    /\ ~InCall
    /\ totalMinted = MAX_SUPPLY
    /\ saleState = "Presale"
    /\ \E a \in Users, i \in Indices, p \in Proofs :
          /\ existsCommit(airdropCommits[a])
          /\ InWindow(airdropCommits[a])
          /\ MerkleVerify(p, merkleRoot, LeafHash(i, a))
          /\ ~isClaimed(Cur, i)

\* C18: right after a successful mint (revealAirdrop, mintFor or
\* revealPublicFor run to its end) saleState is SoldOut if the mint brought
\* totalMinted to MAX_SUPPLY, and is otherwise the sale state the call was
\* made in.
C18_SoldOutTransition ==
    (~InCall /\ last.op \in RevealOps /\ last.res = "ok") =>
       /\ totalMinted >= 1
       /\ IF totalMinted = MAX_SUPPLY
          THEN saleState = "SoldOut"
          ELSE saleState = last.sale /\ saleState # "SoldOut"

\* C18 witness: a public reveal to a contract recipient has minted the last
\* token, after an earlier mint that left the sale state alone.
C18_Witness ==
    /\ ~InCall
    /\ last.op = "mintFor"
    /\ last.res = "ok"
    /\ IsContract(last.to)
    /\ totalMinted = MAX_SUPPLY
    /\ saleState = "SoldOut"

\* The allowlist reveal of secret s by a gets as far as the Merkle check.
ReachesProofCheck(a, s) ==
    /\ saleState = "Presale"
    /\ airdropCommits[a].hash = SecretHash(s)
    /\ InWindow(airdropCommits[a])

\* The leaf of (i, a) is in the tree built at deployment.
InTree(i, a) == i + 1 \in DOMAIN AllowList /\ AllowList[i + 1] = a

\* C19 (as stated): a revealAirdrop gets past its requires only for a leaf
\* (index, caller) of the tree; a call with an index that is not the caller's
\* fails with "Invalid Merkle proof", whatever proof it brings; and a call
\* for an index already claimed fails with "Already claimed", also when the
\* rightful address makes it with its valid proof.
C19_LeafBinding ==
    /\ \A c \in RecordedCalls : c.op = "revealAirdrop" => InTree(c.index, c.who)
    /\ ~InCall =>
         \A a \in Users, s \in Secrets, i \in Indices, p \in Proofs :
            ReachesProofCheck(a, s) =>
               /\ ~InTree(i, a) => revealAirdropCheck(a, i, s, p) = "Invalid Merkle proof"
               /\ ( /\ InTree(i, a)
                    /\ MerkleVerify(p, merkleRoot, LeafHash(i, a))
                    /\ revealLog[i] >= 1 )
                  => revealAirdropCheck(a, i, s, p) = "Already claimed"

\* C20 (as stated): the bitmap is a set of indices as the boolean map is
\* (setting index i makes the test of i true and changes the test of no other
\* index), and in every state the claimed test of every index gives the same
\* answer under either value of useBitmapForAirdrop.
C20_RepresentationsEquivalent ==
    /\ \A i, j \in Indices :
          bitmapGet(bitmapSet(claimedBitmap, i), j) =
             (i = j \/ bitmapGet(claimedBitmap, j))
    /\ \A i \in Indices :
          isClaimed([Cur EXCEPT !.useBitmapForAirdrop = TRUE], i) =
             isClaimed([Cur EXCEPT !.useBitmapForAirdrop = FALSE], i)

(***************************************************************************)
(* Properties of the contributor payouts (checked under SpecSplit).        *)
(***************************************************************************)
\* What the contract has received in all, inferred as the spec does: the
\* current balance plus everything paid out to the payees.
totalReceivedEver == balance + SumOver(paidOut, Contributors)

\* C8 (as stated): for every payee p the total ever paid out to p is at most
\* floor(totalReceivedEver * shares[p] / totalShares).
C8_FairShareBound ==
    ~InCall =>
       \A p \in Contributors :
          paidOut[p] <= (totalReceivedEver * shares[p]) \div totalShares

\* The amount pending for payee p, as the spec computes it, immediately
\* before a payout of amt to p, read in the state after that payout (which
\* moves amt from the balance to paidOut[p] and so leaves totalReceivedEver).
pendingPaymentBefore(p, amt) ==
    (totalReceivedEver * shares[p]) \div totalShares - (paidOut[p] - amt)

\* C9 (as stated): the payouts to the payees never add up to more than the
\* contract has ever received, and no payout call pays its caller more than
\* the amount pending for that payee immediately before the call.
C9_SplitterConservation ==
    /\ SumOver(paidOut, Contributors) <= received
    /\ (~InCall /\ last.op = "withdraw" /\ last.res = "ok") =>
          last.amt <= pendingPaymentBefore(last.who, last.amt)


(***************************************************************************)
(* Properties of the wallet (checked under SpecWallet).                    *)
(***************************************************************************)
\* What a call with the arguments of the succeeded meta-transaction m meets now.
Replay(m) ==
    executeMetaTransactionRequire(WCur, m.tx.from, m.tx.to, m.tx.value, m.tx.data,
                                  m.tx.signature)

\* C6 (as stated): once executeMetaTransaction has succeeded with
\* nonces[from] = k, every later call with the same arguments fails with
\* "Invalid signature".
C6_ReplayRejected == \A m \in executedOk : Replay(m) = "Invalid signature"

\* C6 (amended): once executeMetaTransaction has succeeded with
\* nonces[from] = k, nonces[from] > k, and every later call with the same
\* arguments fails before it changes anything: with "Invalid signature" while
\* from is still an authorised signer, with "unauthorized signer" once from
\* has been removed.
C6_ReplayRejectedAmended ==
    \A m \in executedOk :
       /\ nonces[m.tx.from] > m.k
       /\ Replay(m) = IF isOwner[m.tx.from] \/ m.tx.from = walletOwner
                      THEN "Invalid signature"
                      ELSE "unauthorized signer"

\* C6 witness: a signer whose meta-transaction succeeded has been removed.
C6_Witness ==
    /\ wstack = <<>>
    /\ \E m \in executedOk : ~isOwner[m.tx.from] /\ m.tx.from # walletOwner
    /\ \E m \in executedOk : m.tx.from = walletOwner

OpenCalls(s) == Cardinality({i \in 1 .. Len(wstack) : wstack[i].tx.from = s})

\* C7: nonces[s] is the number of succeeded meta-transactions with from = s
\* plus those with from = s still under way; a step changes nonces[s] only by
\* adding 1 when an executeMetaTransaction with from = s passes its requires,
\* or by putting back the value from before a call that now fails; every
\* other operation and every successful return leaves it alone.
C7_NonceMonotonic ==
    /\ [](\A s \in Signers : nonces[s] = execCount[s] + OpenCalls(s))
    /\ [][\A s \in Signers :
            \/ nonces'[s] = nonces[s]
            \/ /\ nonces'[s] = nonces[s] + 1
               /\ Len(wstack') = Len(wstack) + 1
               /\ wstack'[Len(wstack')].tx.from = s
            \/ /\ Len(wstack') = Len(wstack) - 1
               /\ wlast'.res = "Meta-transaction call failed"
               /\ nonces'[s] = wstack[Len(wstack)].snap.nonces[s]]_vars

\* C7 witness: after a meta-transaction of a signer succeeded, another one of
\* the same signer has failed in its dispatched call.
C7_Witness ==
    /\ wstack = <<>>
    /\ wlast.op = "executeMetaTransaction"
    /\ wlast.res = "Meta-transaction call failed"
    /\ wlast.k = 1
    /\ nonces[wlast.from] = 1
    /\ execCount[wlast.from] = 1

C22_SignerAllowSet ==
    /\ \A i \in 1 .. Len(wstack) : wstack[i].snap.isOwner[wstack[i].tx.from]
    /\ \A from \in Signers, to \in Targets, v \in Values, data \in Datas,
          sig \in Signatures :
          ~isOwner[from] =>
             executeMetaTransactionRequire(WCur, from, to, v, data, sig)
                = "unauthorized signer"

\* The signature signer s makes for (from, nonce, to, value, data) under the
\* domain of the wallet instance d.
SignedFor(d, s, from, nonce, to, value, data) ==
    Sign(s, hashTypedDataV4(d, structHash(from, nonce, to, value, data)))

(***************************************************************************)
(* C23  Domain separation.  A signature an authorised signer s made for    *)
(* (from, nonce, to, value, data) under the domain of another wallet       *)
(* instance, with the nonce this wallet holds for s, is rejected here with *)
(* "Invalid signature"; of the calls that differ only in the verifying     *)
(* contract of the signed domain, the one signed for this wallet is the    *)
(* only one that passes, and no succeeded call carried another.            *)
(***************************************************************************)
C23_DomainSeparation ==
    /\ \A from \in Signers, to \in Targets, v \in Values, data \in Datas :
          (isOwner[from] \/ from = walletOwner) =>
             \A d \in Domains :
                executeMetaTransactionRequire(WCur, from, to, v, data,
                    SignedFor(d, from, from, nonces[from], to, v, data))
                   = IF d = ThisWallet THEN "ok" ELSE "Invalid signature"
    /\ \A m \in executedOk : \A d \in Domains \ {ThisWallet} :
          m.tx.signature #
             SignedFor(d, m.tx.from, m.tx.from, m.k, m.tx.to, m.tx.value, m.tx.data)

\* A signer added by the owner has had one meta-transaction succeed and holds
\* nonce 1, for which signatures under both domains exist.
C23_Witness ==
    /\ wstack = <<>>
    /\ \E s \in Signers \ {walletOwner} :
          /\ isOwner[s] /\ nonces[s] = 1 /\ execCount[s] = 1
          /\ \A d \in Domains, to \in Targets, v \in Values, data \in Datas :
                SignedFor(d, s, s, 1, to, v, data) \in Signatures

\* The step in which the dispatched call of the innermost
\* executeMetaTransaction fails.
DispatchFails ==
    /\ wstack # <<>>
    /\ wstack' = SubSeq(wstack, 1, Len(wstack) - 1)
    /\ wlast'.op = "executeMetaTransaction"
    /\ wlast'.res = "Meta-transaction call failed"

(***************************************************************************)
(* C24  A failed dispatch is atomic.  When the dispatched call fails, the  *)
(* meta-transaction fails with "Meta-transaction call failed": nothing is  *)
(* added to the executed meta-transactions (no MetaTransactionExecuted),   *)
(* the wallet holds the balance it held before the call, nonces[from] has  *)
(* the value it had before the call, and the same call with the same       *)
(* signature passes the requires again.                                    *)
(***************************************************************************)
C24_FailedDispatchAtomic ==
    [][DispatchFails =>
         LET f == wstack[Len(wstack)] IN
         /\ nonces'[f.tx.from] = f.k
         /\ nonces' = f.snap.nonces
         /\ wbalance' = f.snap.wbalance
         /\ executedOk' = f.snap.executedOk
         /\ execCount' = f.snap.execCount
         /\ executeMetaTransactionRequire(WCur', f.tx.from, f.tx.to, f.tx.value,
                                          f.tx.data, f.tx.signature) = "ok"]_vars

\* A meta-transaction that forwarded value 1 has failed in its dispatched
\* call: the wallet holds its funds and the signer's nonce is the one signed.
C24_Witness ==
    /\ wstack = <<>>
    /\ wlast.op = "executeMetaTransaction"
    /\ wlast.res = "Meta-transaction call failed"
    /\ wlast.v = 1
    /\ wbalance = WalletFunds
    /\ nonces[wlast.from] = wlast.k
    /\ executedOk = {}

(***************************************************************************)
(* C25  Re-entrancy guard coverage.  A call of a state-mutating entry      *)
(* point that arrives while another call of the same contract is still     *)
(* executing is rejected.  For the wallet: while the dispatched call of an *)
(* executeMetaTransaction has not returned, no executeMetaTransaction gets *)
(* past its requires, so no two of them are ever open at once.             *)
(***************************************************************************)
C25_GuardCoverage ==
    /\ Len(wstack) <= 1
    /\ wstack # <<>> =>
          \A from \in Signers, to \in Targets, v \in Values, data \in Datas,
             sig \in Signatures :
             executeMetaTransactionRequire(WCur, from, to, v, data, sig) # "ok"

C27_PayoutAtomicity ==
    /\ [](frame.kind = "withdraw" =>
             LET p == frame.callee IN
             /\ frame.op.who = p
             /\ withdrawBalance[p] = 0
             /\ frame.op.amt = frame.snap.withdrawBalance[p]
             /\ frame.op.amt > 0
             /\ balance = frame.snap.balance - frame.op.amt
             /\ \A q \in Contributors \ {p} :
                   withdrawBalance[q] = frame.snap.withdrawBalance[q])
    /\ [][(frame.kind = "withdraw" /\ ~InCall' /\ last'.res # "ok") =>
             /\ last'.op = "withdraw"
             /\ last'.res = "Withdrawal failed"
             /\ withdrawBalance' = frame.snap.withdrawBalance
             /\ withdrawBalance'[frame.callee] = frame.op.amt
             /\ balance' = frame.snap.balance
             /\ paidOut' = frame.snap.paidOut
             /\ sent' = frame.snap.sent]_vars
    /\ [](~InCall =>
             \A q \in Contributors :
                withdrawCheck(q) =
                   IF withdrawBalance[q] > 0 THEN "ok" ELSE "Nothing to withdraw")
    /\ [][(last' # last /\ ~InCall' /\ last'.op = "withdraw" /\ last'.res = "ok") =>
             LET q == last'.who
                 before == IF InCall THEN frame.snap ELSE Cur
             IN  /\ last'.amt = before.withdrawBalance[q]
                 /\ sent'[q] = before.sent[q] + before.withdrawBalance[q]
                 /\ withdrawBalance'[q] = 0
                 /\ \A r \in Contributors \ {q} :
                       withdrawBalance'[r] = before.withdrawBalance[r]]_vars

\* The withdrawal of the contract payee has just failed; the other payee
\* holds a credited balance that the contract can pay.
C27_Witness ==
    /\ ~InCall
    /\ last.op = "withdraw" /\ last.res = "Withdrawal failed"
    /\ withdrawBalance[last.who] = last.amt
    /\ \E q \in Contributors \ {last.who} :
          /\ withdrawBalance[q] > 0
          /\ balance >= withdrawBalance[q]
          /\ ~IsContract(q)

(***************************************************************************)
(* C28  Rarity thresholds.  Of the rolls 0 .. r - 1 the tier function      *)
(* sends those below 10 to Legendary, those from 10 below 500 to Rare,     *)
(* those from 500 below 2500 to Uncommon and the rest to Common; over all  *)
(* rolls 0 .. 9999 that is exactly 10, 490, 2000 and 7500 values.          *)
(***************************************************************************)
C28_RarityThresholds ==
    /\ tierCount["Legendary"] = Min(sampleRoll, 10)
    /\ tierCount["Rare"] = Max(0, Min(sampleRoll, 500) - 10)
    /\ tierCount["Uncommon"] = Max(0, Min(sampleRoll, 2500) - 500)
    /\ tierCount["Common"] = Max(0, sampleRoll - 2500)
    /\ sampleRoll = 10000 =>
          /\ tierCount["Legendary"] = 10
          /\ tierCount["Rare"] = 490
          /\ tierCount["Uncommon"] = 2000
          /\ tierCount["Common"] = 7500

\* Every roll of 0 .. 9999 has been put through the tier function.
C28_Witness ==
    /\ sampleRoll = 10000
    /\ tierCount["Legendary"] + tierCount["Rare"] + tierCount["Uncommon"]
          + tierCount["Common"] = 10000

(***************************************************************************)
(* C29  One wallet per owner.  walletOf[o], once it is not the zero        *)
(* address, never changes; a createWallet(o) executed while walletOf[o] is *)
(* set fails with "exists" and creates nothing; whatever the interleaving  *)
(* of the /deploy-wallet requests and direct calls, the factory has        *)
(* created at most one wallet for an owner, and every request answered     *)
(* with success reports that wallet of its owner.                          *)
(***************************************************************************)
WalletsCreatedFor(o) == {i \in DOMAIN created : created[i].owner = o}

C29_OneWalletPerOwner ==
    /\ [](/\ \A o \in FactoryOwners :
               /\ Cardinality(WalletsCreatedFor(o)) <= 1
               /\ walletOf[o] # ZeroAddress =>
                     /\ createWalletRequire(FCur, o) = "exists"
                     /\ \E i \in WalletsCreatedFor(o) : created[i].wallet = walletOf[o]
           /\ \A r \in DeployIds :
                 deployReq[r].resp.success = "true" =>
                    /\ deployReq[r].resp.status = 200
                    /\ deployReq[r].resp.walletAddress # ZeroAddress
                    /\ deployReq[r].resp.walletAddress = walletOf[deployReq[r].owner]
                    /\ \A i \in WalletsCreatedFor(deployReq[r].owner) :
                          created[i].wallet = deployReq[r].resp.walletAddress)
    /\ [][\A o \in FactoryOwners :
             walletOf[o] # ZeroAddress =>
                /\ walletOf'[o] = walletOf[o]
                /\ WalletsCreatedFor(o)' = WalletsCreatedFor(o)
                /\ (flast' # flast /\ flast'.owner = o) => flast'.res = "exists"]_vars

\* Two requests for one owner both found no wallet at their check; one was
\* answered with success and the wallet, the other with the "exists" failure
\* of its createWallet.
C29_Witness ==
    \E r1, r2 \in DeployIds :
       /\ r1 # r2
       /\ deployReq[r1].owner = deployReq[r2].owner
       /\ deployReq[r1].existingWallet = ZeroAddress
       /\ deployReq[r2].existingWallet = ZeroAddress
       /\ deployReq[r1].resp.status = 200
       /\ deployReq[r1].resp.walletAddress = walletOf[deployReq[r1].owner]
       /\ deployReq[r2].pc = "done"
       /\ deployReq[r2].resp.success = "false"
       /\ deployReq[r2].receipt = "exists"

(***************************************************************************)
(* C30  Relay response protocol.  An answer of success carries a txHash    *)
(* and is given only after the receipt of the forwarded transaction showed *)
(* success; a body with a field that is absent or not of its kind (from,   *)
(* to, smartWalletAddress an address, value a number, data and signature   *)
(* bytes) is answered with 400 and nothing is submitted; a submission or   *)
(* confirmation that failed is answered with success = false and an error  *)
(* message, without a txHash.                                              *)
(***************************************************************************)
WellFormedBody(body) ==
    /\ isAddress(body.from)
    /\ isAddress(body.to)
    /\ isAddress(body.smartWalletAddress)
    /\ parsesBigInt(body.value)
    /\ isBytesLike(body.data)
    /\ isBytesLike(signatureText(body.signature))

C30_RelayResponseProtocol ==
    relay.pc = "done" =>
       /\ relay.resp.txHash # Undefined =>
             relay.resp.success = "true" /\ relay.receipt = "ok"
       /\ relay.resp.success = "true" =>
             relay.resp.txHash # Undefined /\ relay.receipt = "ok"
       /\ ~WellFormedBody(relay.body) =>
             relay.resp.status = 400 /\ ~relay.submitted
       /\ (WellFormedBody(relay.body) /\ relay.receipt # "ok") =>
             /\ relay.resp.success = "false"
             /\ relay.resp.error # Undefined
             /\ relay.resp.txHash = Undefined

(***************************************************************************)
(* C31  Remaining-id pool.  The occupants of the live slots                *)
(* 0 .. MAX_SUPPLY - totalMinted - 1 (tokenMatrix[slot] if it is not 0,    *)
(* else the slot index) are pairwise distinct and are exactly the ids not  *)
(* minted, id 0 included; a mint takes exactly the drawn id out of them.   *)
(***************************************************************************)
LiveSlots == 0 .. (MAX_SUPPLY - totalMinted - 1)
Pool == {slotTokenId(tokenMatrix, slot) : slot \in LiveSlots}
MintedIds == {mintLog[j] : j \in 1 .. Len(mintLog)}

TimingFields(g, c) ==
    /\ g.blockNumber = c.blockNumber
    /\ g.earliestRevealBlock = c.blockNumber + REVEAL_DELAY
    /\ g.expiryBlock = g.earliestRevealBlock + REVEAL_WINDOW
    /\ g.expired <=> ~(blockNumber <= expiryBlock(c))

C32_TimingFields ==
    \A u \in Users :
       /\ existsCommit(airdropCommits[u]) =>
             /\ TimingFields(getCommit(airdropCommits[u], 0, blockNumber),
                             airdropCommits[u])
             /\ \A i \in Indices, s \in Secrets, p \in Proofs :
                   /\ saleState = "Presale" =>
                         (getCommit(airdropCommits[u], 0, blockNumber).expired
                            <=> revealAirdropRequire(u, i, s, p) = "Commit expired")
                   /\ ~(/\ revealAirdropRequire(u, i, s, p) = "ok"
                        /\ ownerCancelExpiredAirdropRequire(Owner, u) = "ok")
       /\ existsCommit(publicCommits[u]) =>
             /\ TimingFields(getCommit(publicCommits[u], publicEscrow[u], blockNumber),
                             publicCommits[u])
             /\ getCommit(publicCommits[u], publicEscrow[u], blockNumber).escrow
                   = publicEscrow[u]
             /\ \A r \in Users, s \in Secrets :
                   /\ saleState = "PublicSale" =>
                         (getCommit(publicCommits[u], publicEscrow[u], blockNumber).expired
                            <=> mintForImplRequire(u, r, s) = "Commit expired")
                   /\ ~(/\ mintForImplRequire(u, r, s) = "ok"
                        /\ ownerCancelExpiredPublicRequire(Owner, u) = "ok")

\* In the active public sale a live commitment is past its expiry block: it
\* is reported expired, its reveal fails and the owner may cancel it.
C32_Witness ==
    \E u \in Users :
       /\ ~InCall
       /\ saleState = "PublicSale"
       /\ existsCommit(publicCommits[u])
       /\ getCommit(publicCommits[u], publicEscrow[u], blockNumber).expired
       /\ mintForImplRequire(u, u, 1) = "Commit expired"
       /\ ownerCancelExpiredPublicRequire(Owner, u) = "ok"

(***************************************************************************)
(* C33  Auto-retry of the throttled client.  Every attempt of a throttled  *)
(* axiosWithRetries call issues an HTTP request of its own, the first      *)
(* attempt of a later call included, whatever failed before; there are at  *)
(* most retries of them; the call returns with the first response, throws  *)
(* at once on a 4xx error, and throws otherwise only after retries failed  *)
(* requests.                                                               *)
(***************************************************************************)
C33_AutoRetry ==
    /\ fetch.attempt <= retries
    /\ fetch.sent <= retries
    /\ (fetch.throttled /\ fetch.pc \in {"delay", "done"}) => fetch.sent = fetch.attempt
    /\ (fetch.throttled /\ fetch.pc = "get") => fetch.sent = fetch.attempt - 1
    /\ fetch.result = "thrown" => (fetch.lastError = "4xx" \/ fetch.attempt = retries)
    /\ fetch.lastError = "4xx" => (fetch.pc = "done" /\ fetch.result = "thrown")

(***************************************************************************)
(* C34  Escrow is backed.  In every state the balance of the contract is   *)
(* at least the sum of publicEscrow over all addresses, so the refund of a *)
(* cancel is never short of funds.                                         *)
(***************************************************************************)
C34_EscrowBacked == balance >= SumOver(publicEscrow, Users)

(***************************************************************************)
(* C35  Credited balances are backed.  In every state the sum of           *)
(* withdrawBalance over the contributors is at most the balance of the     *)
(* contract, so a withdraw of a credited balance is never short of funds.  *)
(***************************************************************************)
C35_CreditBacked == SumOver(withdrawBalance, Contributors) <= balance

(***************************************************************************)
(* C36  Frame of commit, reveal and user cancel.  The presale commitment   *)
(* of an address changes only in a presale commit, reveal or cancel made   *)
(* by that address (or undone with it), or in the owner's force-cancel of  *)
(* it; its public commitment and escrow only in a public commit, reveal or *)
(* cancel made by that address, or in the owner's force-cancel of it.  So  *)
(* a call by x leaves the commitments and escrows of every other address   *)
(* and x's commitment of the other phase as they were, the recipient of a  *)
(* mintFor included.                                                       *)
(***************************************************************************)
C36_CommitFrame ==
    [][\A y \in Users :
         /\ airdropCommits'[y] # airdropCommits[y] =>
               \/ /\ StepCall.op \in {"commitAirdrop", "revealAirdrop", "cancelAirdropCommit"}
                  /\ StepCall.who = y
               \/ /\ StepCall.op = "ownerCancelExpiredAirdrop"
                  /\ StepCall.to = y
         /\ (publicCommits'[y] # publicCommits[y] \/ publicEscrow'[y] # publicEscrow[y]) =>
               \/ /\ StepCall.op \in {"commitPublic", "mintFor", "cancelPublicCommit"}
                  /\ StepCall.who = y
               \/ /\ StepCall.op = "ownerCancelExpiredPublic"
                  /\ StepCall.to = y]_vars

\* A mintFor whose recipient is another address with a live public
\* commitment has succeeded: the caller's commitment and escrow are gone,
\* the recipient's are in place.
C36_Witness ==
    /\ ~InCall
    /\ last.op = "mintFor" /\ last.res = "ok"
    /\ last.to \in Users \ {last.who}
    /\ ~existsCommit(publicCommits[last.who])
    /\ publicEscrow[last.who] = 0
    /\ existsCommit(publicCommits[last.to])
    /\ publicEscrow[last.to] = MINT_PRICE

(***************************************************************************)
(* C37  Nonce order and independence.  While nonces[s] = k a signature of  *)
(* s for nonce k + 1 is rejected; a call signed for nonce k + 1 is         *)
(* accepted only when a meta-transaction of s signed for nonce k has       *)
(* succeeded; and the success of a meta-transaction with from = s leaves   *)
(* the nonce of every other signer as it was.                              *)
(***************************************************************************)
\* The step in which an executeMetaTransaction passes its requires.
Accepted == Len(wstack') = Len(wstack) + 1

C37_NonceOrder ==
    /\ [](\A s \in Signers, to \in Targets, v \in Values, d \in Datas :
             nonces[s] < MaxNonce =>
                executeMetaTransactionRequire(WCur, s, to, v, d,
                    SignedFor(ThisWallet, s, s, nonces[s] + 1, to, v, d)) # "ok")
    /\ [][Accepted =>
             LET f == wstack'[Len(wstack')]
             IN  f.k > 0 =>
                   \E m \in executedOk : m.tx.from = f.tx.from /\ m.k = f.k - 1]_vars
    /\ [][(Len(wstack') = Len(wstack) - 1 /\ wlast'.res = "ok") =>
             \A t \in Signers \ {wlast'.from} : nonces'[t] = nonces[t]]_vars

(***************************************************************************)
(* C38  Signer revocation.  From the success of removeOwner(a) on, and for *)
(* as long as a is not entered into isOwner again, every                   *)
(* executeMetaTransaction with from = a fails, whatever signature it       *)
(* carries, those made before the removal included; and an address that    *)
(* has handed the ownership on through transferOwnership without ever      *)
(* having been the argument of addOwner authorizes no meta-transaction.    *)
(***************************************************************************)
\* Every executeMetaTransaction with from = a fails its requires.
Revoked(a) ==
    \A to \in Targets, v \in Values, d \in Datas, sig \in Signatures :
        executeMetaTransactionRequire(WCur, a, to, v, d, sig) # "ok"

C38_SignerRevocation ==
    /\ [][\A a \in Signers :
             (wlast'.op = "removeOwner" /\ wlast'.from = a /\ wlast' # wlast)
                => Revoked(a)']_vars
    /\ [][\A a \in Signers :
             (~isOwner[a] /\ ~isOwner'[a] /\ Revoked(a)) => Revoked(a)']_vars
    /\ [][(wlast.op = "none" /\ walletOwner' # walletOwner)
             => Revoked(walletOwner)']_vars

(***************************************************************************)
(* C39  The form's cancel targets the commit it displays.  Whenever the    *)
(* form shows a commit that is still the one on chain, the cancel          *)
(* handleCancel sends passes the contract's requires and is attributed to  *)
(* the displayed committer: it deletes that committer's commitment and,    *)
(* in the public phase, its escrow, which is refunded to that committer.   *)
(***************************************************************************)
C39_CancelTargetsDisplayed ==
    (~InCall /\ form.commitDetails # <<>>) =>
       LET d == form.commitDetails[1]
           c == IF d.isAirdrop THEN airdropCommits[d.committer]
                ELSE publicCommits[d.committer]
       IN  (c.hash = d.hash /\ c.blockNumber = d.blockNumber) =>
              IF d.isAirdrop
              THEN /\ cancelAirdropCommitCheck(form.account) = "ok"
                   /\ ~existsCommit(cancelAirdropEffect(Cur, form.account)
                                       .airdropCommits[d.committer])
              ELSE /\ cancelPublicCommitCheck(form.account) = "ok"
                   /\ LET t == cancelPublicEffect(Cur, form.account)
                      IN  /\ ~existsCommit(t.publicCommits[d.committer])
                          /\ t.publicEscrow[d.committer] = 0
                   /\ form.account = d.committer
====
